---- MODULE Spec2Model ----
(***************************************************************************)
(* Verification model of the HSA conformance test framework (hexl).        *)
(*                                                                         *)
(* Part 1: the scenario command engine of hexl_base/Scenario.cpp:          *)
(* ScenarioBuilder / CommandsBuilder, Scenario::Execute, the               *)
(* CommandSequence Execute/Finish loops, StartThreadCommand with its       *)
(* std::thread, DispatchExecuteErrorCommand and ScenarioTest::Run.         *)
(***************************************************************************)
EXTENDS Integers, Sequences, FiniteSets, TLC

\* ------------------------------------------------------------------ bounds
\* Largest sequence index a builder call or a start_thread command names.
MaxSeqId == 2
\* Largest number of commands appended to one scenario (all sequences).
MaxCmds == 4

SeqIds    == 0..MaxSeqId
WorkerIds == 1..MaxSeqId

\* ------------------------------------------------------------ the commands
\* A Command of the catalog.  Every command that only delegates to one
\* RuntimeState call (module_create_from_brig ... is_queue_error) behaves the
\* same for the engine: its Execute returns what the runtime returned.
RuntimeCommand       == [op |-> "rt",  id |-> 0]
DispatchExecuteError == [op |-> "dee", id |-> 0]
StartThread(j)       == [op |-> "st",  id |-> j]

\* TestStatus values a context can carry under TEST_STATUS_KEY.
Statuses == {"PASSED", "FAILED", "NA"}

VARIABLES
  bld,        \* ScenarioBuilder::commands: the CommandsBuilders' sequences
  commands,   \* Scenario::commands: vector of CommandSequence
  released,   \* history: the scenario as ReleaseScenario returned it
  pc,         \* position of the calling thread in ScenarioTest::Run
  tstate,     \* per sequence id: state of the thread of control running it
  tpos,       \* per sequence id: loop position of CommandSequence::Execute
  trace,      \* history: per sequence id, the Execute calls made and results
  tret,       \* per sequence id: return value of CommandSequence::Execute
  joinable,   \* StartThreadCommand::thread.joinable(), per thread id
  joins,      \* history: number of thread.join() calls, per thread id
  result,     \* StartThreadCommand::result (volatile bool), per thread id
  sresult,    \* local `result` of Scenario::Execute
  startRes,   \* history: value returned by rt->StartThread(0, ...)
  waitRes,    \* history: value returned by rt->WaitThreads()
  fi,         \* range-for position of Scenario::Execute over commands
  fend,       \* end of that range-for, taken when the loop starts
  stale,      \* the vector grew while the range-for was iterating it
  fstack,     \* call stack of nested CommandSequence::Finish invocations
  finCount,   \* history: number of Finish calls per command
  seqFinLog,  \* history: every CommandSequence::Finish call that returned
  execRet,    \* value returned by Scenario::Execute
  ctxStatus,  \* context entry TEST_STATUS_KEY ("none" when absent)
  testStatus, \* status of the ScenarioTest
  \* -- TestDataProvider (HSAILTestGenDataProvider.cpp)
  dpc,             \* position of the provider's client
  groupTests,      \* static TestDataProvider::groupTests
  groupImms,       \* static TestDataProvider::groupImms
  operands,        \* history: the registerOperand calls and their bucket
  constOperands,   \* TestDataGenerator of the constants bucket
  mutableOperands, \* TestDataGenerator of the mutable bucket
  lockedOperands,  \* TestDataGenerator of the locked bucket
  visited,         \* history: combinations made current in this group
  nextRet,         \* value returned by the last TestDataProvider::next
  \* -- OperandTestDataImpl<f16_t> (HSAILTestGenDataProvider.cpp)
  cpc,         \* position of the catalog's client / of the constructor
  rndTestNum,  \* static OperandTestData::rndTestNum
  baseStd,     \* history: standard values of the base catalog (clone)
  supplied,    \* history: the values vs[0..sz) passed to the constructor
  isClone,     \* the catalog under construction has a base
  std,         \* values[0..size): the standard values
  rnd,         \* values[size..size+rsize): the random values
  ri,          \* loop counter i of the constructor's random-value loop
  \* -- Val and ValVector (HSAILTestGenVal.cpp)
  vals,         \* the Val objects: alive or not, and their `vector` pointer
  heap,         \* the ValVector allocations: refCount, number of deletes
  selfAssigned, \* history: a vector Val was assigned to itself
  \* -- calls of Val::eq and of the instruction emulator
  epc,       \* position of the caller: before a call or after its return
  call,      \* the call made last: function, arguments, returned value
  noAnswer,  \* history: per kind of "no definite answer", a value returned
  \* -- EmittableContainer (Emitter.hpp)
  list,      \* EmittableContainer::list: the children, in the order added
  kcall,     \* history: the phase called last and the children it reached
  \* -- TestDataProvider::init and OperandTestDataFactory
  predefined, \* the predefined catalogs: per type, its number of random values
  initRnd     \* history: rndTestNum passed to the last TestDataProvider::init

vars == <<bld, commands, released, pc, tstate, tpos, trace, tret, joinable,
          joins, result, sresult, startRes, waitRes, fi, fend, stale, fstack,
          finCount, seqFinLog, execRet, ctxStatus, testStatus,
          dpc, groupTests, groupImms, operands, constOperands,
          mutableOperands, lockedOperands, visited, nextRet,
          cpc, rndTestNum, baseStd, supplied, isClone, std, rnd, ri,
          vals, heap, selfAssigned, epc, call, noAnswer,
          list, kcall, predefined, initRnd>>

bvars   == <<bld, commands, released>>
tvars   == <<tstate, tpos, trace, tret>>
thvars  == <<joinable, joins, result>>
fvars   == <<fi, fend, stale, fstack, finCount, seqFinLog>>
outvars == <<sresult, startRes, waitRes, execRet>>
stvars  == <<ctxStatus, testStatus>>
\* all variables of the scenario engine
scvars  == <<bvars, pc, tvars, thvars, fvars, outvars, stvars>>
\* the variables of the test data provider
dvars   == <<dpc, groupTests, groupImms, operands, constOperands,
             mutableOperands, lockedOperands, visited, nextRet>>
\* the variables of the operand test data catalog
cvars   == <<cpc, rndTestNum, baseStd, supplied, isClone, std, rnd, ri>>
\* the variables of the Val objects
vvars   == <<vals, heap, selfAssigned>>
\* the variables of the calls of Val::eq and of the emulator
evars   == <<epc, call, noAnswer>>
\* the variables of the emittable container
kvars   == <<list, kcall>>
\* the variables of the provider's static initialization
pvars   == <<predefined, initRnd>>
\* everything outside the scenario engine
xvars   == <<dvars, cvars, vvars, evars, kvars, pvars>>
\* everything outside the test data provider, outside the catalog, outside
\* the Val objects, outside the calls
nodvars == <<scvars, cvars, vvars, evars, kvars, pvars>>
nocvars == <<scvars, dvars, vvars, evars, kvars, pvars>>
novvars == <<scvars, dvars, cvars, evars, kvars, pvars>>
noevars == <<scvars, dvars, cvars, vvars, kvars, pvars>>
nokvars == <<scvars, dvars, cvars, vvars, evars, pvars>>

\* ---------------------------------------------------------------- helpers
\* commands[id] of the C++ vector (0-based) in the 1-based TLA+ sequence.
Cmds(s) == commands[s + 1]

TotalCmds(b) ==
  LET RECURSIVE Sum(_)
      Sum(n) == IF n = 0 THEN 0 ELSE Len(b[n]) + Sum(n - 1)
  IN Sum(Len(b))

\* Thread ids already named by a start_thread command of the builder.
NamedIds(b) ==
  {j \in WorkerIds : \E s \in 1..Len(b) : \E i \in 1..Len(b[s]) :
                        b[s][i] = StartThread(j)}

\* Logical AND of a sequence of booleans.
RECURSIVE AndAll(_)
AndAll(q) == IF q = <<>> THEN TRUE ELSE Head(q) /\ AndAll(Tail(q))

Empties(n) == [i \in 1..n |-> <<>>]

\* A bool that may not have been assigned yet: None, or Some(b).
None    == <<>>
Some(b) == <<b>>
Get(o)  == o[1]

\* Faulty variant: the vector is made anew.
GrowToFresh(v, id) == Empties(IF Len(v) > id THEN Len(v) ELSE id + 1)

\* vector after `for (i = size; i <= id; ++i) push_back(new ...)`.
\* Scenario::Commands and ScenarioBuilder::Commands share this loop.
GrowTo(v, id) == IF Len(v) > id THEN v ELSE v \o Empties(id + 1 - Len(v))

\* ------------------------------------------------------------------- Init
InitCommon ==
  /\ bld = <<>>
  /\ commands = <<>>
  /\ released = <<>>
  /\ pc = "build"
  /\ tstate = [s \in SeqIds |-> "idle"]
  /\ tpos = [s \in SeqIds |-> 0]
  /\ trace = [s \in SeqIds |-> <<>>]
  /\ tret = [s \in SeqIds |-> None]
  /\ joinable = [j \in WorkerIds |-> FALSE]
  /\ joins = [j \in WorkerIds |-> 0]
  /\ result = [j \in WorkerIds |-> None]
  /\ sresult = TRUE
  /\ startRes = None
  /\ waitRes = None
  /\ fi = 0
  /\ fend = 0
  /\ stale = FALSE
  /\ fstack = <<>>
  /\ finCount = [s \in SeqIds |-> <<>>]
  /\ seqFinLog = <<>>
  /\ execRet = None
  /\ testStatus = "PASSED"

\* A TestDataProvider right after construction, with the static grouping
\* flags at their initial values (both true): no operand registered yet.
ProviderConstructed ==
  /\ groupTests = TRUE
  /\ groupImms = TRUE
  /\ operands = <<>>
  /\ constOperands = <<>>
  /\ mutableOperands = <<>>
  /\ lockedOperands = <<>>
  /\ visited = <<>>
  /\ nextRet = None

\* The scenario engine runs without a test data provider in use.
ProviderUnused == dpc = "unused" /\ ProviderConstructed

\* No catalog constructed; rndTestNum has its initial value 0.
CatalogNone ==
  /\ rndTestNum = 0
  /\ baseStd = <<>>
  /\ supplied = <<>>
  /\ isClone = FALSE
  /\ std = <<>>
  /\ rnd = <<>>
  /\ ri = 0

CatalogUnused == cpc = "unused" /\ CatalogNone

\* No Val constructed and no ValVector allocated.
ValsUnused ==
  /\ vals = <<>>
  /\ heap = <<>>
  /\ selfAssigned = FALSE

\* No call made.
NoCall ==
  /\ call = <<>>
  /\ noAnswer = <<>>

CallsUnused == epc = "unused" /\ NoCall

\* No child added to the container and no phase called.
ContainerUnused == list = <<>> /\ kcall = <<>>

\* TestDataProvider::init not called.
StaticsUnused == predefined = <<>> /\ initRnd = <<>>

\* The components added last are not in use.
OthersUnused == ContainerUnused /\ StaticsUnused

\* The components outside the scenario engine are not in use.
OutsideUnused ==
  ProviderUnused /\ CatalogUnused /\ ValsUnused /\ CallsUnused /\ OthersUnused

Init == InitCommon /\ ctxStatus = "none" /\ OutsideUnused

\* ------------------------------------------------------------ the builder
\* ScenarioBuilder::Commands(id): creates the missing builders 0..id.
BuilderCommands(k) ==
  /\ pc = "build"
  /\ Len(bld) <= k
  /\ bld' = GrowTo(bld, k)
  /\ UNCHANGED <<commands, released, pc, tvars, thvars, fvars, outvars, stvars, xvars>>

\* ScenarioBuilder::Commands(k)->X(...): CommandsBuilder::X appends command c
\* to sequence k (CommandSequence::Add) and returns true.  The scenarios built
\* name every thread id in at most one start_thread command, of a sequence
\* with a smaller index, so that no sequence starts itself and each
\* StartThreadCommand is executed by one thread at most; the id may name a
\* sequence the builder never created.
BuilderAdd(k, c) ==
  /\ pc = "build"
  /\ TotalCmds(bld) < MaxCmds
  /\ c.op = "st" => c.id > k /\ c.id \notin NamedIds(bld)
  /\ LET b == GrowTo(bld, k)
     IN bld' = [b EXCEPT ![k + 1] = Append(@, c)]
  /\ UNCHANGED <<commands, released, pc, tvars, thvars, fvars, outvars, stvars, xvars>>

\* ScenarioBuilder::ReleaseScenario: every builder's sequence is moved into a
\* new Scenario (Scenario::AddCommands).
ReleaseScenario ==
  /\ pc = "build"
  /\ Len(bld) >= 1
  /\ commands' = bld
  /\ released' = bld
  /\ bld' = <<>>
  /\ finCount' = [s \in SeqIds |->
                    IF s < Len(bld) THEN [i \in 1..Len(bld[s + 1]) |-> 0]
                    ELSE <<>>]
  /\ pc' = "ready"
  /\ UNCHANGED <<tvars, thvars, fi, fend, stale, fstack, seqFinLog, outvars, stvars, xvars>>


\* --------------------------------------------- the runtime abstraction layer
\* RuntimeState::StartThread(0, sequence): runs sequence 0 synchronously in
\* the calling thread and returns what its Execute returned.
RuntimeStartThread(r) == r

\* RuntimeState::WaitThreads returns once no spawned thread is still running.
RuntimeWaitThreadsReady ==
  \A j \in WorkerIds : tstate[j] \notin {"spawned", "running"}

\* Command::Finish of a command that does not override it.
CommandFinish == TRUE

\* --------------------------------------------- CommandSequence::Execute
\* Faulty variant: the loop goes on after a failing command.
NeverStops(ok) == FALSE
\* `if (!c->Execute(rt)) { return false; }`
ExecuteStops(ok) == ~ok

\* Faulty variant: a failure aborts every running sequence.
ReturningAll(t) == {u \in SeqIds : tstate[u] = "running"}
\* The invocations of CommandSequence::Execute that the `return false` of the
\* invocation run by thread t ends: its own.
Returning(t) == {t}

\* Threads started by start_thread commands that thread t has executed.
StartedBy(t) ==
  {j \in WorkerIds : \E i \in 1..Len(trace[t]) :
       trace[t][i].op = "st" /\ Cmds(t)[trace[t][i].idx].id = j}

\* Faulty variant: start_thread's Execute waits for the thread it started.
CanStepAfterJoin(t) ==
  tstate[t] = "running" /\ \A j \in StartedBy(t) : tstate[j] = "returned"
\* A thread of control runs its CommandSequence::Execute loop whenever it is
\* scheduled: StartThreadCommand::Execute returned right after Start.
CanStep(t) == tstate[t] = "running"

\* Faulty variant: RunThread drops the value Execute returned.
RunThreadIgnores(r) == TRUE
\* StartThreadCommand::RunThread: `result = ...->Execute(runtime)`.
RunThreadResult(r) == r

\* Faulty variant: IsQueueError is not asked.
DispatchFailedOnly(d, q) == ~d
\* DispatchExecuteErrorCommand::Execute:
\* `!rt->DispatchExecute(dispatchId) && rt->IsQueueError()`; q is
\* None when && did not evaluate IsQueueError.
DispatchExecuteErrorResult(d, q) == ~d /\ q = Some(TRUE)

\* Faulty variant: `result = ...` instead of `result &= ...`.
LastOnly(res, r) == r
\* `result &= ...` of Scenario::Execute
ScenarioAccumulate(res, r) == res /\ r

\* Faulty variant: `result = c->Finish(rt)`.
FinishLastOnly(acc, r) == r
\* `result &= c->Finish(rt)` of CommandSequence::Finish
FinishAccumulate(acc, r) == acc /\ r

\* One command of thread t's sequence has returned ok from Execute; `spawn`
\* is the set of threads its Execute started; `entry` is logged.
Executed(t, ok, entry, spawn) ==
  LET R == IF ExecuteStops(ok) THEN Returning(t) ELSE {}
  IN /\ trace' = [trace EXCEPT ![t] = Append(@, entry)]
     /\ tstate' = [u \in SeqIds |->
                     IF u \in R THEN "returned"
                     ELSE IF u \in spawn THEN "spawned" ELSE tstate[u]]
     /\ tret' = [u \in SeqIds |-> IF u \in R THEN Some(FALSE) ELSE tret[u]]
     /\ tpos' = IF ExecuteStops(ok) THEN tpos ELSE [tpos EXCEPT ![t] = @ + 1]
     /\ result' = [j \in WorkerIds |->
                     IF j \in R THEN Some(RunThreadResult(FALSE))
                     ELSE result[j]]
     /\ joinable' = [j \in WorkerIds |-> joinable[j] \/ j \in spawn]
     /\ IF 0 \in R
        THEN /\ startRes' = Some(RuntimeStartThread(FALSE))
             /\ sresult' = ScenarioAccumulate(sresult, RuntimeStartThread(FALSE))
             /\ pc' = "wait"
        ELSE UNCHANGED <<startRes, sresult, pc>>
     /\ UNCHANGED <<bvars, joins, waitRes, execRet, fvars, stvars, xvars>>

Running(t) ==
  /\ pc \in {"seq0", "wait"}
  /\ CanStep(t)
  /\ tpos[t] <= Len(Cmds(t))

\* Scenario::Execute, first statement: rt->StartThread(0, commands[0].get()).
ScenarioExecute ==
  /\ pc = "ready"
  /\ pc' = "seq0"
  /\ tstate' = [tstate EXCEPT ![0] = "running"]
  /\ tpos' = [tpos EXCEPT ![0] = 1]
  /\ UNCHANGED <<bvars, trace, tret, thvars, fvars, outvars, stvars, xvars>>

\* A command delegating to one RuntimeState call, which returns ok.
ExecRuntimeCommand(t) ==
  /\ Running(t)
  /\ Cmds(t)[tpos[t]].op = "rt"
  /\ \E ok \in BOOLEAN :
       Executed(t, ok, [idx |-> tpos[t], op |-> "rt", ok |-> ok,
                        d |-> None, q |-> None], {})

\* DispatchExecuteErrorCommand::Execute; d is what DispatchExecute returned,
\* q what IsQueueError returned.
ExecDispatchExecuteError(t) ==
  /\ Running(t)
  /\ Cmds(t)[tpos[t]].op = "dee"
  /\ \E d \in BOOLEAN :
       \E q \in (IF d THEN {None} ELSE {Some(TRUE), Some(FALSE)}) :
          Executed(t, DispatchExecuteErrorResult(d, q),
                   [idx |-> tpos[t], op |-> "dee",
                    ok |-> DispatchExecuteErrorResult(d, q),
                    d |-> Some(d), q |-> q], {})

\* StartThreadCommand::Execute: Start creates the std::thread running
\* RunThread, then `return true`.
ExecStartThread(t) ==
  /\ Running(t)
  /\ Cmds(t)[tpos[t]].op = "st"
  /\ Executed(t, TRUE, [idx |-> tpos[t], op |-> "st", ok |-> TRUE,
                        d |-> None, q |-> None], {Cmds(t)[tpos[t]].id})

\* CommandSequence::Execute leaves its loop: `return true`.
ExecEnd(t) ==
  /\ pc \in {"seq0", "wait"}
  /\ CanStep(t)
  /\ tpos[t] > Len(Cmds(t))
  /\ tstate' = [tstate EXCEPT ![t] = "returned"]
  /\ tret' = [tret EXCEPT ![t] = Some(TRUE)]
  /\ IF t = 0
     THEN /\ startRes' = Some(RuntimeStartThread(TRUE))
          /\ sresult' = ScenarioAccumulate(sresult, RuntimeStartThread(TRUE))
          /\ pc' = "wait"
          /\ UNCHANGED result
     ELSE /\ result' = [result EXCEPT ![t] = Some(RunThreadResult(TRUE))]
          /\ UNCHANGED <<startRes, sresult, pc>>
  /\ UNCHANGED <<bvars, tpos, trace, joinable, joins, waitRes, execRet,
                 fvars, stvars, xvars>>

\* StartThreadCommand::RunThread, first half: scenario->Commands(id), which
\* creates the sequences up to id when the scenario has none there.
RunThreadLookup(j) ==
  /\ pc \in {"seq0", "wait"}
  /\ tstate[j] = "spawned"
  /\ commands' = GrowTo(commands, j)
  /\ tstate' = [tstate EXCEPT ![j] = "running"]
  /\ tpos' = [tpos EXCEPT ![j] = 1]
  /\ UNCHANGED <<bld, released, pc, trace, tret, thvars, fvars, outvars, stvars, xvars>>

\* Two workers inside Scenario::Commands at once, one of them growing the
\* vector: a data race on Scenario::commands.  Besides behaving as if one
\* call came after the other (RunThreadLookup), the race can end the process.
RunThreadLookupRace ==
  /\ pc \in {"seq0", "wait"}
  /\ \E j1, j2 \in WorkerIds :
       /\ j1 # j2
       /\ tstate[j1] = "spawned" /\ tstate[j2] = "spawned"
       /\ Len(commands) <= j1
  /\ pc' = "crashed"
  /\ UNCHANGED <<bvars, tvars, thvars, fvars, outvars, stvars, xvars>>

\* Scenario::Execute, second statement: rt->WaitThreads(); then the range-for
\* over commands starts.
WaitThreads ==
  /\ pc = "wait"
  /\ RuntimeWaitThreadsReady
  /\ \E w \in BOOLEAN :
       /\ waitRes' = Some(w)
       /\ sresult' = ScenarioAccumulate(sresult, w)
  /\ pc' = "finish"
  /\ fi' = 0
  /\ fend' = Len(commands)
  /\ UNCHANGED <<bvars, tvars, thvars, stale, fstack, finCount, seqFinLog,
                 startRes, execRet, stvars, xvars>>


\* ----------------------------------------------- CommandSequence::Finish
Top == fstack[Len(fstack)]

Frame(s, fromLoop) ==
  [seq |-> s, idx |-> 1, acc |-> TRUE, rets |-> <<>>, loop |-> fromLoop]

\* The command of frame f has returned r from Finish: `result &= r`, next.
FrameAfter(f, r) ==
  [f EXCEPT !.idx = @ + 1, !.acc = FinishAccumulate(@, r),
            !.rets = Append(@, r)]

\* The loop of CommandSequence::Finish in frame f has visited every command.
FinishLoopDone(f) == f.idx > Len(Cmds(f.seq))

CountFinish(s, i) == [finCount EXCEPT ![s] = [@ EXCEPT ![i] = @ + 1]]

\* Scenario::Execute, range-for: the next sequence's Finish is called.
FinishLoopNext ==
  /\ pc = "finish"
  /\ fstack = <<>>
  /\ fi < fend
  /\ fstack' = <<Frame(fi, TRUE)>>
  /\ UNCHANGED <<bvars, pc, tvars, thvars, fi, fend, stale, finCount, seqFinLog,
                 outvars, stvars, xvars>>

\* The range-for advances an iterator into a vector that a push_back has
\* grown meanwhile: where the vector reallocated, the iterator dangles.
\* Besides reading the old element (FinishLoopNext), this can end the process.
FinishLoopStale ==
  /\ pc = "finish"
  /\ fstack = <<>>
  /\ fi < fend
  /\ stale
  /\ pc' = "crashed"
  /\ UNCHANGED <<bvars, tvars, thvars, fvars, outvars, stvars, xvars>>

\* Command::Finish of a command that is no start_thread.
FinishCommand ==
  /\ pc = "finish"
  /\ fstack # <<>>
  /\ ~FinishLoopDone(Top)
  /\ Cmds(Top.seq)[Top.idx].op # "st"
  /\ fstack' = [fstack EXCEPT ![Len(fstack)] = FrameAfter(Top, CommandFinish)]
  /\ finCount' = CountFinish(Top.seq, Top.idx)
  /\ UNCHANGED <<bvars, pc, tvars, thvars, fi, fend, stale, seqFinLog, outvars,
                 stvars, xvars>>

\* Faulty variant: join without the joinable() guard.
JoinAlways(j) == TRUE
\* StartThreadCommand::Wait: `if (thread.joinable())`.
ShouldJoin(j) == joinable[j]

\* StartThreadCommand::Finish up to the call of the worker sequence's Finish:
\* Wait joins the thread, scenario->Commands(id) looks the sequence up.
FinishStartThread ==
  /\ pc = "finish"
  /\ fstack # <<>>
  /\ ~FinishLoopDone(Top)
  /\ Cmds(Top.seq)[Top.idx].op = "st"
  /\ LET j == Cmds(Top.seq)[Top.idx].id
     IN /\ ShouldJoin(j) /\ joinable[j] => tstate[j] = "returned"
        /\ joinable' = [joinable EXCEPT ![j] = IF ShouldJoin(j) THEN FALSE ELSE @]
        /\ joins' = [joins EXCEPT ![j] = IF ShouldJoin(j) THEN @ + 1 ELSE @]
        /\ commands' = GrowTo(commands, j)
        /\ stale' = (stale \/ Len(commands) <= j)
        /\ fstack' = Append(fstack, Frame(j, FALSE))
  /\ finCount' = CountFinish(Top.seq, Top.idx)
  /\ UNCHANGED <<bld, released, pc, tvars, result, fi, fend, seqFinLog,
                 outvars, stvars, xvars>>

\* StartThreadCommand::Finish, after the worker sequence's Finish returned r:
\* `if (!r) { result = false; }`.
ResultAfterFinish(res, r) == IF ~r THEN Some(FALSE) ELSE res

\* `return result;` of StartThreadCommand::Finish: an unassigned bool reads
\* as either value.
ReturnedResult(res) == IF res = None THEN BOOLEAN ELSE {Get(res)}

\* CommandSequence::Finish returns: to StartThreadCommand::Finish, or to the
\* range-for of Scenario::Execute.
FinishReturn ==
  /\ pc = "finish"
  /\ fstack # <<>>
  /\ FinishLoopDone(Top)
  /\ seqFinLog' = Append(seqFinLog, [seq |-> Top.seq, ret |-> Top.acc,
                                     rets |-> Top.rets, loop |-> Top.loop])
  /\ IF Len(fstack) = 1
     THEN /\ sresult' = ScenarioAccumulate(sresult, Top.acc)
          /\ fi' = fi + 1
          /\ fstack' = <<>>
          /\ UNCHANGED result
     ELSE LET caller == fstack[Len(fstack) - 1]
              j == Top.seq
              res == ResultAfterFinish(result[j], Top.acc)
          IN /\ result' = [result EXCEPT ![j] = res]
             /\ \E v \in ReturnedResult(res) :
                  fstack' = SubSeq(fstack, 1, Len(fstack) - 2) \o
                              <<FrameAfter(caller, v)>>
             /\ UNCHANGED <<sresult, fi>>
  /\ UNCHANGED <<bvars, pc, tvars, joinable, joins, fend, stale, finCount,
                 startRes, waitRes, execRet, stvars, xvars>>

\* Scenario::Execute: `return result;`
ExecuteReturn ==
  /\ pc = "finish"
  /\ fstack = <<>>
  /\ fi >= fend
  /\ execRet' = Some(sresult)
  /\ pc' = "ret"
  /\ UNCHANGED <<bvars, tvars, thvars, fvars, sresult, startRes, waitRes, stvars, xvars>>

\* ------------------------------------------------------- ScenarioTest::Run
\* Faulty variant: the scenario result is looked at first.
RunStatusResultFirst(ctx, res, cur) ==
  IF ~res THEN "FAILED" ELSE IF ctx # "none" THEN ctx ELSE cur
\* `if (context->Has(TEST_STATUS_KEY)) SetStatus(*status);
\*  else if (!result) SetFailed();`
RunStatus(ctx, res, cur) ==
  IF ctx # "none" THEN ctx ELSE IF ~res THEN "FAILED" ELSE cur

RunSetStatus ==
  /\ pc = "ret"
  /\ testStatus' = RunStatus(ctxStatus, Get(execRet), testStatus)
  /\ pc' = "done"
  /\ UNCHANGED <<bvars, tvars, thvars, fvars, outvars, ctxStatus, xvars>>

\* ------------------------------------------------------------ specifications
\* Scenarios with worker threads.
ThreadCommands == {RuntimeCommand} \cup {StartThread(j) : j \in WorkerIds}

Next ==
  \/ \E k \in SeqIds : BuilderCommands(k)
  \/ \E k \in SeqIds : \E c \in ThreadCommands : BuilderAdd(k, c)
  \/ ReleaseScenario
  \/ ScenarioExecute
  \/ \E t \in SeqIds : ExecRuntimeCommand(t)
  \/ \E t \in SeqIds : ExecStartThread(t)
  \/ \E t \in SeqIds : ExecEnd(t)
  \/ \E j \in WorkerIds : RunThreadLookup(j)
  \/ RunThreadLookupRace
  \/ WaitThreads
  \/ FinishLoopNext
  \/ FinishLoopStale
  \/ FinishCommand
  \/ FinishStartThread
  \/ FinishReturn
  \/ ExecuteReturn
  \/ RunSetStatus

Spec == Init /\ [][Next]_vars


\* ScenarioTest::Run on single-sequence scenarios of runtime and
\* dispatch_execute_error commands, with a context that may carry a status.
TestCommands == {RuntimeCommand, DispatchExecuteError}

InitTest == InitCommon /\ ctxStatus \in {"none"} \cup Statuses /\ OutsideUnused

NextTest ==
  \/ BuilderCommands(0)
  \/ \E c \in TestCommands : BuilderAdd(0, c)
  \/ ReleaseScenario
  \/ ScenarioExecute
  \/ ExecRuntimeCommand(0)
  \/ ExecDispatchExecuteError(0)
  \/ ExecEnd(0)
  \/ WaitThreads
  \/ FinishLoopNext
  \/ FinishCommand
  \/ FinishReturn
  \/ ExecuteReturn
  \/ RunSetStatus

SpecTest == InitTest /\ [][NextTest]_vars

\* ---------------------------------------------------------------- claims
Started(t) == tstate[t] \in {"running", "returned"}

AllOk(tr) == \A n \in 1..Len(tr) : tr[n].ok

\* The CommandSequence::Finish calls made by the range-for of
\* Scenario::Execute, in call order.
LoopLog == SelectSeq(seqFinLog, LAMBDA e : e.loop)

\* C1: every CommandSequence::Finish call that returned has invoked Finish on
\* every command of its sequence, whatever Execute did and whatever earlier
\* Finish calls returned, and has returned the AND of the commands' results.
C1_FinishAll ==
  \A n \in 1..Len(seqFinLog) :
    LET e == seqFinLog[n]
    IN /\ Len(e.rets) = Len(Cmds(e.seq))
       /\ \A i \in 1..Len(Cmds(e.seq)) : finCount[e.seq][i] >= 1
       /\ e.ret = AndAll(e.rets)

\* Sequence 0 has three commands, its second failed in Execute, and its
\* Finish visited all three, the first (a start_thread) returning false.
C1_Witness ==
  \E n \in 1..Len(seqFinLog) :
    LET e == seqFinLog[n]
    IN /\ e.seq = 0
       /\ Len(Cmds(0)) = 3
       /\ Len(trace[0]) = 2 /\ ~trace[0][2].ok
       /\ e.rets = <<FALSE, TRUE, TRUE>>
       /\ e.ret = FALSE

\* C2: CommandSequence::Execute runs the commands in append order, each once,
\* stops at the first failing command and returns false there; it returns
\* true only when every command returned true.
C2_ExecuteShortCircuit ==
  \A t \in SeqIds :
    Started(t) =>
      /\ \A n \in 1..Len(trace[t]) : trace[t][n].idx = n
      /\ Len(trace[t]) <= Len(Cmds(t))
      /\ \A n \in 1..(Len(trace[t]) - 1) : trace[t][n].ok
      /\ (trace[t] # <<>> /\ ~trace[t][Len(trace[t])].ok)
            => tret[t] = Some(FALSE)
      /\ tret[t] = Some(FALSE)
            => trace[t] # <<>> /\ ~trace[t][Len(trace[t])].ok
      /\ tret[t] = Some(TRUE)
            => Len(trace[t]) = Len(Cmds(t)) /\ AllOk(trace[t])

\* A sequence of three commands that stopped at its second.
C2_Witness ==
  \E t \in SeqIds :
    /\ tret[t] = Some(FALSE)
    /\ Len(Cmds(t)) = 3
    /\ Len(trace[t]) = 2

\* C3: Scenario::Execute starts sequence 0, then waits for the threads, and
\* only then calls Finish, in index order, on every sequence the scenario was
\* released with (and on those the workers had added before the loop),
\* whatever the start and the wait returned; it returns the AND of the start
\* result, the wait result and every such Finish result.
C3_ExecuteOrder ==
  /\ startRes # None => tstate[0] = "returned" /\ startRes = tret[0]
  /\ waitRes # None => startRes # None /\ RuntimeWaitThreadsReady
  /\ (seqFinLog # <<>> \/ fstack # <<>>) => waitRes # None
  /\ execRet # None =>
       /\ Len(LoopLog) >= Len(released)
       /\ \A n \in 1..Len(LoopLog) : LoopLog[n].seq = n - 1
       /\ Get(execRet) = (/\ Get(startRes)
                          /\ Get(waitRes)
                          /\ \A n \in 1..Len(LoopLog) : LoopLog[n].ret)

\* Start and wait both reported failure, and still both sequences of the
\* scenario were finished.
C3_Witness ==
  /\ execRet = Some(FALSE)
  /\ startRes = Some(FALSE)
  /\ waitRes = Some(FALSE)
  /\ Len(released) = 2
  /\ Len(LoopLog) = 2

\* C4: when sequence 0 started a worker and a command of the worker's
\* sequence failed, Scenario::Execute returns false.
WorkerFailed(j) == \E n \in 1..Len(trace[j]) : ~trace[j][n].ok

C4_WorkerFailureFails ==
  (execRet # None /\ \E j \in StartedBy(0) : WorkerFailed(j))
     => execRet = Some(FALSE)

\* Every command of sequence 0 succeeded, the wait succeeded, a worker failed.
C4_Witness ==
  /\ execRet = Some(FALSE)
  /\ startRes = Some(TRUE)
  /\ waitRes = Some(TRUE)
  /\ \E j \in StartedBy(0) : WorkerFailed(j)

\* C5: a spawned thread is joined exactly once: never twice, only after it
\* was spawned, and every spawned thread is joined when Scenario::Execute
\* returns, also when its start_thread command was finished more than once.
C5_JoinedOnce ==
  \A j \in WorkerIds :
    /\ joins[j] <= 1
    /\ joins[j] = 1 => tstate[j] = "returned" /\ ~joinable[j]
    /\ joinable[j] => tstate[j] # "idle" /\ joins[j] = 0
    /\ (execRet # None /\ tstate[j] # "idle") => joins[j] = 1

\* A start_thread command whose Finish ran twice and whose thread was joined
\* once.
C5_Witness ==
  \E j \in WorkerIds : \E s \in 0..(Len(commands) - 1) :
    \E i \in 1..Len(Cmds(s)) :
      /\ Cmds(s)[i] = StartThread(j)
      /\ finCount[s][i] = 2
      /\ joins[j] = 1
      /\ execRet # None

\* C6: a failing command ends only the Execute of its own sequence: every
\* sequence that was started ends at its own end or its own first failure.
OwnEnd(t) ==
  \/ Len(trace[t]) = Len(Cmds(t)) /\ AllOk(trace[t])
  \/ trace[t] # <<>> /\ ~trace[t][Len(trace[t])].ok

C6_FailureIsLocal ==
  /\ \A t \in SeqIds : tstate[t] = "returned" => OwnEnd(t)
  /\ waitRes # None => \A t \in SeqIds : tstate[t] # "idle" => OwnEnd(t)

\* Two sibling workers of sequence 0: one failed, the other and the spawning
\* sequence ran all their commands.
C6_Witness ==
  /\ StartedBy(0) = {1, 2}
  /\ tret[1] = Some(FALSE)
  /\ tret[2] = Some(TRUE) /\ Len(trace[2]) >= 1
  /\ tret[0] = Some(TRUE)

\* C7: a start_thread command's Execute returns true without waiting for the
\* worker: a thread that is inside its Execute loop can always take its next
\* step, whatever the threads it spawned are doing.
ThreadStep(t) == ExecRuntimeCommand(t) \/ ExecStartThread(t) \/ ExecEnd(t)

C7_StartDoesNotWait ==
  /\ \A t \in SeqIds : \A n \in 1..Len(trace[t]) :
        trace[t][n].op = "st" => trace[t][n].ok
  /\ \A t \in SeqIds :
        (pc \in {"seq0", "wait"} /\ tstate[t] = "running")
           => ENABLED ThreadStep(t)

\* Sequence 0 has executed a command after its start_thread while the worker
\* has not executed its first command yet.
C7_Witness ==
  \E j \in WorkerIds :
    /\ Len(trace[0]) >= 2 /\ trace[0][1].op = "st" /\ Cmds(0)[1].id = j
    /\ tstate[j] = "running" /\ trace[j] = <<>> /\ Len(Cmds(j)) >= 1

\* C8: executing a released scenario never changes its sequences.
C8_ScenarioImmutable ==
  pc # "build" => commands = released

\* C9: dispatch_execute_error succeeds exactly when DispatchExecute reported
\* failure and IsQueueError then reported a queue error.
C9_DispatchExecuteError ==
  \A t \in SeqIds : \A n \in 1..Len(trace[t]) :
    LET e == trace[t][n]
    IN e.op = "dee" =>
         /\ e.ok <=> (e.d = Some(FALSE) /\ e.q = Some(TRUE))
         /\ e.d = Some(TRUE) => ~e.ok
         /\ (e.d = Some(FALSE) /\ e.q = Some(FALSE)) => ~e.ok

\* A passing dispatch_execute_error followed by one that failed because the
\* failed dispatch raised no queue error.
C9_Witness ==
  /\ Len(trace[0]) = 2
  /\ trace[0][1].op = "dee" /\ trace[0][1].ok
  /\ trace[0][2].op = "dee" /\ trace[0][2].d = Some(FALSE)
  /\ trace[0][2].q = Some(FALSE) /\ tret[0] = Some(FALSE)

\* C10: ScenarioTest::Run sets the status stored in the context when there
\* is one, whatever Scenario::Execute returned; with none, a false result
\* marks the test failed and a true result leaves its status alone.
C10_RunStatus ==
  pc = "done" =>
    /\ ctxStatus # "none" => testStatus = ctxStatus
    /\ (ctxStatus = "none" /\ ~Get(execRet)) => testStatus = "FAILED"
    /\ (ctxStatus = "none" /\ Get(execRet)) => testStatus = "PASSED"

\* The scenario failed, the context says PASSED, the test is PASSED.
C10_Witness ==
  /\ pc = "done"
  /\ execRet = Some(FALSE)
  /\ ctxStatus = "PASSED"
  /\ testStatus = "PASSED"

(***************************************************************************)
(* Part 2: the test data provider of HSAILTestGenDataProvider.cpp:         *)
(* TestDataIterator, the three TestDataGenerator buckets of a              *)
(* TestDataProvider, registerOperand, next, nextGroup and reset.           *)
(***************************************************************************)
\* ------------------------------------------------------------------ bounds
\* Largest number of operands registered with one provider.
MaxOperands == 2
\* Largest number of values (standard and random) in an operand's catalog.
MaxValues == 2
\* Largest rndTestNum the client asks for.
MaxRnd == 2

\* Max number of attempts to generate next random value.
MAX_RND_TEST_TRY == 256
\* Max number of random values.
MAX_RND_TEST_NUM == 64

\* Sizes of the catalogs the operands iterate: never empty, a catalog holds
\* the standard values of its type.
CatalogSizes == 1..MaxValues

\* ------------------------------------------------------- TestDataIterator
\* An iterator is its position idx and the size of the catalog it walks.
TestDataIterator(sz) == [idx |-> 0, size |-> sz]

IterReset(it) == [it EXCEPT !.idx = 0]

IterExhausted(it) == it.idx = it.size

\* Value returned by TestDataIterator::next.
IterNextRet(it) == IF IterExhausted(it) THEN FALSE ELSE it.idx + 1 < it.size

\* The iterator after TestDataIterator::next.
IterNextState(it) ==
  IF IterExhausted(it) THEN it ELSE [it EXCEPT !.idx = it.idx + 1]

\* ------------------------------------------------------ TestDataGenerator
\* A bucket is the sequence of the iterators registered with it; it walks
\* the cross product of their catalogs, the first registered fastest.
GenReset(g) == [i \in 1..Len(g) |-> IterReset(g[i])]

GenExhausted(g) == \A i \in 1..Len(g) : IterExhausted(g[i])

\* Value returned by the bucket's next: some iterator could advance.
GenNextRet(g) == \E i \in 1..Len(g) : IterNextRet(g[i])

\* The bucket after its next: the first iterator that can advance does, the
\* ones before it start over; when none can, every iterator is exhausted.
GenNextState(g) ==
  IF GenNextRet(g)
    THEN LET i == CHOOSE k \in 1..Len(g) :
                    /\ IterNextRet(g[k])
                    /\ \A l \in 1..(k - 1) : ~IterNextRet(g[l])
         IN [k \in 1..Len(g) |->
               IF k < i THEN IterReset(g[k])
               ELSE IF k = i THEN IterNextState(g[k])
               ELSE g[k]]
    ELSE [k \in 1..Len(g) |-> [g[k] EXCEPT !.idx = g[k].size]]

\* Number of value combinations of a bucket.
RECURSIVE GenSize(_)
GenSize(g) == IF g = <<>> THEN 1 ELSE Head(g).size * GenSize(Tail(g))

\* The positions of a bucket's iterators.
GenPos(g) == [i \in 1..Len(g) |-> g[i].idx]

\* ------------------------------------------------------- TestDataProvider
\* Faulty variant: the constness of the operand alone selects the bucket.
BucketByConstness(isConst, lockConst, grpTests, grpImms) ==
  IF isConst /\ grpImms THEN "const"
  ELSE IF grpTests THEN "mutable"
  ELSE "locked"

\* The generator registerOperand selects.
RegisterBucket(isConst, lockConst, grpTests, grpImms) ==
  IF isConst /\ grpImms /\ ~lockConst THEN "const"
  ELSE IF ~isConst /\ grpTests THEN "mutable"
  ELSE "locked"

\* Faulty variant: the constants are not started over.
ProviderNextNoReset(co, mu) ==
  IF GenNextRet(co)
    THEN [ret |-> TRUE, co |-> GenNextState(co), mu |-> mu]
  ELSE IF GenNextRet(mu)
    THEN [ret |-> TRUE, co |-> GenNextState(co), mu |-> GenNextState(mu)]
  ELSE [ret |-> FALSE, co |-> GenNextState(co), mu |-> GenNextState(mu)]

\* TestDataProvider::next on the constants bucket co and the mutable bucket
\* mu: the value returned and the two buckets afterwards.
ProviderNextResult(co, mu) ==
  IF GenNextRet(co)
    THEN [ret |-> TRUE, co |-> GenNextState(co), mu |-> mu]
  ELSE IF GenNextRet(mu)
    THEN [ret |-> TRUE, co |-> GenReset(GenNextState(co)),
          mu |-> GenNextState(mu)]
  ELSE [ret |-> FALSE, co |-> GenNextState(co), mu |-> GenNextState(mu)]

\* The combination the provider currently stands on.
Combination(co, mu) == [co |-> GenPos(co), mu |-> GenPos(mu)]

\* The types with a predefined catalog (three of them).
PredefinedTypes == {"b1", "s8", "f16"}

\* OperandTestDataFactory::init: every predefined catalog is constructed;
\* its constructor reads the static rndTestNum, here count.
FactoryInit(count) == [t \in PredefinedTypes |-> [rndTestNum |-> count]]

\* TestDataProvider::init(grpTests, grpImms, rndTestNum, ...): the grouping
\* flags, the predefined catalogs and the number of random values.
ProviderInit(grpTests, grpImms, rndNum) ==
  /\ dpc = "config"
  /\ rndNum <= MAX_RND_TEST_NUM
  /\ groupTests' = grpTests
  /\ groupImms' = (grpTests /\ grpImms)
  /\ predefined' = FactoryInit(rndTestNum)  \* OperandTestDataFactory::init()
  /\ rndTestNum' = rndNum                   \* OperandTestData::init(rndTestNum)
  /\ initRnd' = Some(rndNum)
  /\ dpc' = "register"
  /\ UNCHANGED <<scvars, vvars, evars, kvars, cpc, baseStd, supplied, isClone,
                 std, rnd, ri, operands, constOperands, mutableOperands,
                 lockedOperands, visited, nextRet>>

\* TestDataProvider::registerOperand for an operand whose catalog has sz
\* values.
RegisterOperand(sz, isConst, lockConst) ==
  /\ dpc \in {"config", "register"}
  /\ Len(operands) < MaxOperands
  /\ LET b == RegisterBucket(isConst, lockConst, groupTests, groupImms)
         it == TestDataIterator(sz)
     IN /\ constOperands' =
             IF b = "const" THEN Append(constOperands, it) ELSE constOperands
        /\ mutableOperands' =
             IF b = "mutable" THEN Append(mutableOperands, it)
             ELSE mutableOperands
        /\ lockedOperands' =
             IF b = "locked" THEN Append(lockedOperands, it)
             ELSE lockedOperands
        /\ operands' = Append(operands,
             [isConst |-> isConst, lockConst |-> lockConst,
              groupTests |-> groupTests, groupImms |-> groupImms,
              bucket |-> b])
  /\ dpc' = "register"
  /\ UNCHANGED <<nodvars, groupTests, groupImms, visited, nextRet>>

\* TestDataProvider::reset.
ProviderReset ==
  /\ dpc \in {"register", "iterate"}
  /\ constOperands' = GenReset(constOperands)
  /\ mutableOperands' = GenReset(mutableOperands)
  /\ lockedOperands' = GenReset(lockedOperands)
  /\ visited' = <<Combination(constOperands', mutableOperands')>>
  /\ nextRet' = None
  /\ dpc' = "iterate"
  /\ UNCHANGED <<nodvars, groupTests, groupImms, operands>>

\* TestDataProvider::next.
ProviderNext ==
  /\ dpc = "iterate"
  /\ LET r == ProviderNextResult(constOperands, mutableOperands)
     IN /\ constOperands' = r.co
        /\ mutableOperands' = r.mu
        /\ nextRet' = Some(r.ret)
        /\ visited' = IF r.ret THEN Append(visited, Combination(r.co, r.mu))
                      ELSE visited
  /\ UNCHANGED <<nodvars, dpc, groupTests, groupImms, operands,
                 lockedOperands>>

\* TestDataProvider::nextGroup; its two assertions are the guard.
ProviderNextGroup ==
  /\ dpc = "iterate"
  /\ GenExhausted(constOperands)
  /\ GenExhausted(mutableOperands)
  /\ constOperands' = GenReset(constOperands)
  /\ mutableOperands' = GenReset(mutableOperands)
  /\ lockedOperands' = GenNextState(lockedOperands)
  /\ IF GenNextRet(lockedOperands)
       THEN /\ visited' = <<Combination(constOperands', mutableOperands')>>
            /\ nextRet' = None
            /\ dpc' = "iterate"
       ELSE /\ dpc' = "done"
            /\ UNCHANGED <<visited, nextRet>>
  /\ UNCHANGED <<nodvars, groupTests, groupImms, operands>>

InitData ==
  /\ InitCommon
  /\ OthersUnused
  /\ ctxStatus = "none"
  /\ dpc = "config"
  /\ ProviderConstructed
  /\ CatalogUnused
  /\ ValsUnused
  /\ CallsUnused

NextData ==
  \/ \E grpTests \in BOOLEAN, grpImms \in BOOLEAN, rndNum \in 0..MaxRnd :
       ProviderInit(grpTests, grpImms, rndNum)
  \/ \E sz \in CatalogSizes, isConst \in BOOLEAN, lockConst \in BOOLEAN :
       RegisterOperand(sz, isConst, lockConst)
  \/ ProviderReset
  \/ ProviderNext
  \/ ProviderNextGroup

SpecData == InitData /\ [][NextData]_vars

\* ------------------------------------------------------- claims C11, C12
\* The all-zero position of a bucket: what its reset leaves.
Zeros(g) == [i \in 1..Len(g) |-> 0]

\* C11: after a reset, next() makes each of the c*m (constant, mutable)
\* combinations current exactly once, the constants varying fastest and
\* starting over whenever the mutable bucket advances; once next() has
\* returned false all c*m have been visited and both buckets are exhausted.
C11_CrossProduct ==
  dpc = "iterate" =>
    LET c == GenSize(constOperands)
        m == GenSize(mutableOperands)
    IN /\ Len(visited) <= c * m
       /\ \A i \in 1..Len(visited) :
            /\ \A k \in 1..Len(constOperands) :
                 visited[i].co[k] < constOperands[k].size
            /\ \A k \in 1..Len(mutableOperands) :
                 visited[i].mu[k] < mutableOperands[k].size
            /\ \A j \in 1..Len(visited) : i # j => visited[i] # visited[j]
       /\ \A i \in 1..(Len(visited) - 1) :
            \/ /\ visited[i + 1].mu = visited[i].mu
               /\ visited[i + 1].co # visited[i].co
            \/ /\ visited[i + 1].mu # visited[i].mu
               /\ visited[i + 1].co = Zeros(constOperands)
       /\ nextRet = Some(FALSE) =>
            /\ Len(visited) = c * m
            /\ GenExhausted(constOperands)
            /\ GenExhausted(mutableOperands)

C11_Witness ==
  /\ dpc = "iterate"
  /\ nextRet = Some(FALSE)
  /\ GenSize(constOperands) >= 2
  /\ GenSize(mutableOperands) >= 2
  /\ Len(visited) = GenSize(constOperands) * GenSize(mutableOperands)

\* C12 as stated: constants bucket when the operand is constant and
\* immediates are grouped, otherwise mutable when tests are grouped,
\* otherwise locked.
C12_BucketPolicy ==
  \A i \in 1..Len(operands) :
    operands[i].bucket =
      (IF operands[i].isConst /\ operands[i].groupImms THEN "const"
       ELSE IF operands[i].groupTests THEN "mutable"
       ELSE "locked")

\* C12, amended: constants bucket exactly when the operand is constant,
\* immediates are grouped and the constant is not locked; mutable bucket
\* exactly when the operand is not constant and tests are grouped; locked
\* bucket in every other case.
C12_BucketPolicyAmended ==
  /\ \A i \in 1..Len(operands) :
       LET o == operands[i]
       IN /\ (o.bucket = "const") <=>
               (o.isConst /\ o.groupImms /\ ~o.lockConst)
          /\ (o.bucket = "mutable") <=> (~o.isConst /\ o.groupTests)
          /\ (o.bucket = "locked") <=>
               \/ (o.isConst /\ (o.lockConst \/ ~o.groupImms))
               \/ (~o.isConst /\ ~o.groupTests)
  /\ Len(constOperands) =
       Cardinality({i \in 1..Len(operands) : operands[i].bucket = "const"})
  /\ Len(mutableOperands) =
       Cardinality({i \in 1..Len(operands) : operands[i].bucket = "mutable"})
  /\ Len(lockedOperands) =
       Cardinality({i \in 1..Len(operands) : operands[i].bucket = "locked"})

C12_Witness ==
  \E i \in 1..Len(operands), j \in 1..Len(operands) :
    /\ operands[i].isConst /\ operands[i].lockConst /\ operands[i].groupImms
    /\ operands[i].bucket = "locked"
    /\ ~operands[j].isConst /\ operands[j].bucket = "mutable"

(***************************************************************************)
(* Part 3: floating-point values as Val sees them (HSAILTestGenVal.cpp).   *)
(* A scalar value of type f16 is its 16-bit pattern: 1 sign bit, 5         *)
(* exponent bits, 10 mantissa bits.                                        *)
(***************************************************************************)
F16Sign(b) == b \div 2^15
F16Exp(b)  == (b \div 2^10) % 2^5
F16Mant(b) == b % 2^10

\* The classification predicates of Val on an f16 pattern.
IsNan(b)          == F16Exp(b) = 2^5 - 1 /\ F16Mant(b) # 0
IsSignalingNan(b) == IsNan(b) /\ F16Mant(b) < 2^9
IsZero(b)         == F16Exp(b) = 0 /\ F16Mant(b) = 0
IsPositiveZero(b) == IsZero(b) /\ F16Sign(b) = 0
IsSubnormal(b)    == F16Exp(b) = 0 /\ F16Mant(b) # 0
IsPositiveSubnormal(b) == IsSubnormal(b) /\ F16Sign(b) = 0
IsNegativeSubnormal(b) == IsSubnormal(b) /\ F16Sign(b) = 1

\* The quiet NaN without payload, with the given sign bit.
QuietNan(sign) == sign * 2^15 + (2^5 - 1) * 2^10 + 2^9

\* props().clearPayloadIfNan(discardNanSign) of op_normalize.
ClearPayloadIfNan(b, discardNanSign) ==
  IF IsNan(b) THEN QuietNan(IF discardNanSign THEN 0 ELSE F16Sign(b)) ELSE b

\* op_s2q: a signaling NaN gets its quiet bit set.
QuietedSignalingNan(b) == IF IsSignalingNan(b) THEN b + 2^9 ELSE b

\* Val::normalize(discardNanSign) on a scalar f16.
Normalize(b, discardNanSign) == ClearPayloadIfNan(b, discardNanSign)

\* Val::ftz on a scalar f16: subnormals become the zero of their sign.
Ftz(b) ==
  IF IsNegativeSubnormal(b) THEN 2^15
  ELSE IF IsPositiveSubnormal(b) THEN 0
  ELSE b

\* The f16 patterns the model draws values from: +0, -0, 1.0, a quiet NaN
\* with payload 1, a negative signaling NaN with payload 2.
F16Values == {0, 2^15, 15 * 2^10, 31 * 2^10 + 2^9 + 1, 2^15 + 31 * 2^10 + 2}

\* What Val::randomize can return for an f16: any pattern, made quiet and
\* normalized.
RandomValues == {Normalize(QuietedSignalingNan(b), FALSE) : b \in F16Values}

(***************************************************************************)
(* Part 4: the operand test data catalog OperandTestDataImpl<T> of         *)
(* HSAILTestGenDataProvider.cpp, for T = f16_t: its constructor (used by   *)
(* resetValues and cloneValues), addStdValue and addRndValue.              *)
(***************************************************************************)
\* ------------------------------------------------------------------ bounds
\* Largest number sz of values supplied to a constructor call.
MaxSupplied == 2


\* The arrays vs[0..sz) a client can supply: sz > 0 is asserted.
SuppliedValues == UNION {[1..n -> F16Values] : n \in 1..MaxSupplied}

\* OperandTestDataImpl::eq.
TEq(val1, val2) ==
  IF IsNan(val1) \/ IsNan(val2) THEN IsNan(val1) /\ IsNan(val2)
  ELSE IF IsZero(val1) /\ IsZero(val2)
    THEN IsPositiveZero(val1) = IsPositiveZero(val2)
  ELSE val1 = val2

\* OperandTestDataImpl::isStdValue with values[0..size) = stdv.
IsStdValue(stdv, val) == \E i \in 1..Len(stdv) : TEq(val, stdv[i])

\* Faulty variant: the value is stored without the search.
AddStdAlways(stdv, val) == Append(stdv, Normalize(val, FALSE))

\* OperandTestDataImpl::addStdValue: values[0..size) afterwards.
AddStdValue(stdv, val) ==
  IF ~IsStdValue(stdv, val) THEN Append(stdv, Normalize(val, FALSE)) ELSE stdv

\* The constructor's loops `size = addStdValue(size, vs[i])`.
RECURSIVE AddStdValues(_, _)
AddStdValues(stdv, vs) ==
  IF vs = <<>> THEN stdv
  ELSE AddStdValues(AddStdValue(stdv, Head(vs)), Tail(vs))

\* The values of cnt with which addRndValue can reach its loop test
\* `isStdValue(v) && cnt > 0`: MAX_RND_TEST_TRY - d after d draws in a row
\* that were standard values.
LoopCounts(stdv) ==
  IF \E v \in RandomValues : IsStdValue(stdv, v)
    THEN 0..MAX_RND_TEST_TRY
    ELSE {MAX_RND_TEST_TRY}

\* OperandTestDataImpl::addRndValue: the results it can have, Some(v) for
\* a value stored and None for a value dropped.  The loop ends on a draw
\* that is no standard value or on cnt = 0; the value is stored if cnt > 0.
AddRndValue(stdv) ==
  LET stored  == IF \E cnt \in LoopCounts(stdv) : cnt > 0
                   THEN {Some(v) :
                           v \in {w \in RandomValues : ~IsStdValue(stdv, w)}}
                   ELSE {}
      dropped == IF 0 \in LoopCounts(stdv) THEN {None} ELSE {}
  IN stored \cup dropped

\* OperandTestData::init(rndNum).
OperandTestDataInit(rndNum) ==
  /\ cpc = "start"
  /\ rndNum <= MAX_RND_TEST_NUM
  /\ rndTestNum' = rndNum
  /\ cpc' = "ready"
  /\ UNCHANGED <<nocvars, baseStd, supplied, isClone, std, rnd, ri>>

\* resetValues(sz, vs): the constructor without a base, up to its loop over
\* the random values.
ResetValues(vs) ==
  /\ cpc \in {"start", "ready"}
  /\ baseStd' = <<>>
  /\ supplied' = vs
  /\ isClone' = FALSE
  /\ std' = AddStdValues(<<>>, vs)
  /\ rnd' = <<>>
  /\ ri' = 0
  /\ cpc' = "random"
  /\ UNCHANGED <<nocvars, rndTestNum>>

\* cloneValues(sz, vs) on the catalog built last: the constructor with
\* that catalog as base, up to its loop over the random values.
CloneValues(vs) ==
  /\ cpc = "built"
  /\ ~isClone
  /\ baseStd' = std
  /\ supplied' = vs
  /\ isClone' = TRUE
  /\ std' = AddStdValues(AddStdValues(<<>>, std), vs)
  /\ rnd' = <<>>
  /\ ri' = 0
  /\ cpc' = "random"
  /\ UNCHANGED <<nocvars, rndTestNum>>

\* One round of `for (i = 0; i < rndTestNum; ++i) rsize = addRndValue(rsize)`.
ConstructorAddRnd ==
  /\ cpc = "random"
  /\ ri < rndTestNum
  /\ \E r \in AddRndValue(std) :
       rnd' = IF r = None THEN rnd ELSE Append(rnd, Get(r))
  /\ ri' = ri + 1
  /\ UNCHANGED <<nocvars, cpc, rndTestNum, baseStd, supplied, isClone, std>>

\* The constructor returns.
ConstructorReturn ==
  /\ cpc = "random"
  /\ ri = rndTestNum
  /\ cpc' = "built"
  /\ UNCHANGED <<nocvars, rndTestNum, baseStd, supplied, isClone, std, rnd, ri>>

InitCatalog ==
  /\ InitCommon
  /\ OthersUnused
  /\ ctxStatus = "none"
  /\ ProviderUnused
  /\ ValsUnused
  /\ CallsUnused
  /\ cpc = "start"
  /\ CatalogNone

NextCatalog ==
  \/ \E rndNum \in 0..MaxRnd : OperandTestDataInit(rndNum)
  \/ \E vs \in SuppliedValues : ResetValues(vs)
  \/ \E vs \in SuppliedValues : CloneValues(vs)
  \/ ConstructorAddRnd
  \/ ConstructorReturn

SpecCatalog == InitCatalog /\ [][NextCatalog]_vars

\* ------------------------------------------------------- claims C13, C14
\* C13: a built catalog holds at most 64 random values, none of them equal
\* to one of its standard values or to another of its random values.
C13_RandomDeduplicated ==
  cpc = "built" =>
    /\ Len(rnd) <= MAX_RND_TEST_NUM
    /\ \A i \in 1..Len(rnd) : ~IsStdValue(std, rnd[i])
    /\ \A i \in 1..Len(rnd), j \in 1..Len(rnd) :
         i # j => ~TEq(rnd[i], rnd[j])

\* Positions of the supplied values that equal no base value and no value
\* supplied before them.
FreshArgs ==
  {k \in 1..Len(supplied) :
     /\ \A i \in 1..Len(baseStd) : ~TEq(supplied[k], baseStd[i])
     /\ \A l \in 1..(k - 1) : ~TEq(supplied[l], supplied[k])}

\* The n-th fresh position, in argument order.
NthFresh(n) ==
  CHOOSE k \in FreshArgs : Cardinality({l \in FreshArgs : l <= k}) = n

\* C14: the standard values of a clone are the base's standard values
\* followed, in argument order, by exactly the supplied values equal to no
\* value already present; a supplied value already present adds nothing.
C14_CloneStandardValues ==
  (cpc = "built" /\ isClone) =>
    /\ Len(std) = Len(baseStd) + Cardinality(FreshArgs)
    /\ SubSeq(std, 1, Len(baseStd)) = baseStd
    /\ \A n \in 1..Cardinality(FreshArgs) :
         /\ TEq(std[Len(baseStd) + n], supplied[NthFresh(n)])
         /\ std[Len(baseStd) + n] = Normalize(supplied[NthFresh(n)], FALSE)

C14_Witness ==
  /\ cpc = "built"
  /\ isClone
  /\ Len(baseStd) = 2
  /\ Len(supplied) = 2
  /\ Cardinality(FreshArgs) = 1
  /\ Len(std) = 3

(***************************************************************************)
(* Part 5: ownership of vector storage (HSAILTestGenVal.cpp): ValVector    *)
(* with its refCount, Val::clean, Val::copy, the vector and copy           *)
(* constructors, operator= and the destructor.                             *)
(***************************************************************************)
\* ------------------------------------------------------------------ bounds
\* Number of Val objects of the client.
MaxValObjects == 3
\* Largest number of ValVector allocations.
MaxVectors == 2

ValObjects == 1..MaxValObjects
VecIds     == 1..MaxVectors

\* A Val that is no vector has vector = 0.
IsVector(val) == val.vector # 0

\* ValVector::lock and ValVector::unlock on the allocation v.
VecLock(h, v)   == [h EXCEPT ![v].refCount = h[v].refCount + 1]
VecUnlock(h, v) == [h EXCEPT ![v].refCount = h[v].refCount - 1]

\* `delete vector`.
VecDelete(h, v) == [h EXCEPT ![v].deletes = h[v].deletes + 1]

\* unlock asserts refCount > 0.
CleanAsserts(st, s) ==
  IsVector(st.vals[s]) => st.heap[st.vals[s].vector].refCount > 0

\* Val::clean on object s.
ValClean(st, s) ==
  IF IsVector(st.vals[s])
    THEN LET v == st.vals[s].vector
             h == VecUnlock(st.heap, v)
         IN [vals |-> [st.vals EXCEPT ![s].vector = 0],
             heap |-> IF h[v].refCount = 0 THEN VecDelete(h, v) ELSE h]
    ELSE st

\* Faulty variant: the pointer is copied without taking a reference.
ValCopyNoLock(st, s, t) ==
  [vals |-> [st.vals EXCEPT ![s] = [alive |-> TRUE,
                                    vector |-> st.vals[t].vector]],
   heap |-> st.heap]

\* Val::copy: object s becomes a copy of object t.
ValCopy(st, s, t) ==
  [vals |-> [st.vals EXCEPT ![s] = [alive |-> TRUE,
                                    vector |-> st.vals[t].vector]],
   heap |-> IF IsVector(st.vals[t])
              THEN VecLock(st.heap, st.vals[t].vector)
              ELSE st.heap]

\* Val::operator=.
ValAssigned(st, s, t) == IF s # t THEN ValCopy(ValClean(st, s), s, t) ELSE st

Memory == [vals |-> vals, heap |-> heap]

\* A scalar Val is constructed.
ValConstructScalar(s) ==
  /\ ~vals[s].alive
  /\ vals' = [vals EXCEPT ![s] = [alive |-> TRUE, vector |-> 0]]
  /\ UNCHANGED <<novvars, heap, selfAssigned>>

\* Val::Val(dim, v0, v1, v2, v3): a new ValVector, locked once.
ValConstructVector(s) ==
  /\ ~vals[s].alive
  /\ \E v \in VecIds :
       /\ ~heap[v].alloc
       /\ \A u \in VecIds : u < v => heap[u].alloc
       /\ heap' = VecLock([heap EXCEPT ![v] = [alloc |-> TRUE, refCount |-> 0,
                                               deletes |-> 0]], v)
       /\ vals' = [vals EXCEPT ![s] = [alive |-> TRUE, vector |-> v]]
  /\ UNCHANGED <<novvars, selfAssigned>>

\* Val::Val(const Val&).
ValCopyConstruct(s, t) ==
  /\ ~vals[s].alive
  /\ vals[t].alive
  /\ LET st == ValCopy(Memory, s, t)
     IN vals' = st.vals /\ heap' = st.heap
  /\ UNCHANGED <<novvars, selfAssigned>>

\* Val::operator=(const Val&), self-assignment included.
ValAssign(s, t) ==
  /\ vals[s].alive
  /\ vals[t].alive
  /\ CleanAsserts(Memory, s)
  /\ LET st == ValAssigned(Memory, s, t)
     IN vals' = st.vals /\ heap' = st.heap
  /\ selfAssigned' = (selfAssigned \/ (s = t /\ IsVector(vals[s])))
  /\ UNCHANGED novvars

\* Val::~Val.
ValDestroy(s) ==
  /\ vals[s].alive
  /\ CleanAsserts(Memory, s)
  /\ LET st == ValClean(Memory, s)
     IN /\ vals' = [st.vals EXCEPT ![s].alive = FALSE]
        /\ heap' = st.heap
  /\ UNCHANGED <<novvars, selfAssigned>>

InitVal ==
  /\ InitCommon
  /\ OthersUnused
  /\ ctxStatus = "none"
  /\ ProviderUnused
  /\ CatalogUnused
  /\ CallsUnused
  /\ vals = [s \in ValObjects |-> [alive |-> FALSE, vector |-> 0]]
  /\ heap = [v \in VecIds |-> [alloc |-> FALSE, refCount |-> 0, deletes |-> 0]]
  /\ selfAssigned = FALSE

NextVal ==
  \/ \E s \in ValObjects : ValConstructScalar(s)
  \/ \E s \in ValObjects : ValConstructVector(s)
  \/ \E s \in ValObjects, t \in ValObjects : ValCopyConstruct(s, t)
  \/ \E s \in ValObjects, t \in ValObjects : ValAssign(s, t)
  \/ \E s \in ValObjects : ValDestroy(s)

SpecVal == InitVal /\ [][NextVal]_vars

\* ------------------------------------------------------------- claim C15
\* The live Vals referring to the allocation v.
Owners(v) == {s \in ValObjects : vals[s].alive /\ vals[s].vector = v}

\* C15: a ValVector's refCount is the number of live Vals referring to it;
\* it is deleted exactly once, when no live Val refers to it any more, and
\* never while one does.
C15_RefCount ==
  \A v \in VecIds :
    heap[v].alloc =>
      /\ heap[v].deletes <= 1
      /\ heap[v].deletes = 0 =>
           (heap[v].refCount = Cardinality(Owners(v)) /\ Owners(v) # {})
      /\ heap[v].deletes = 1 => (Owners(v) = {} /\ heap[v].refCount = 0)

C15_Witness ==
  /\ selfAssigned
  /\ \E v \in VecIds, u \in VecIds :
       /\ heap[v].alloc /\ heap[v].deletes = 1
       /\ heap[u].alloc /\ heap[u].refCount >= 2

(***************************************************************************)
(* Part 6: Val::eq (HSAILTestGenVal.cpp).  A scalar Val is its type and    *)
(* its bit pattern; a vector Val has type none and 2 to 4 scalar           *)
(* components of one type.                                                 *)
(***************************************************************************)
\* ------------------------------------------------------------------ bounds
\* Largest dimension of the vector Vals compared.
MaxDim == 2

\* The scalar types compared: a floating type and an integer type of the
\* same width.
ScalarTypes == {"f16", "u16"}

ScalarVals == [type : ScalarTypes, bits : F16Values]

\* The components of the vector Vals compared: +0 and the two NaNs.
ComponentVals ==
  {v \in ScalarVals : IsPositiveZero(v.bits) \/ IsNan(v.bits)}

VectorVals ==
  UNION {[type : {"none"},
          comps : [1..n -> {v \in ComponentVals : v.type = t}]] :
           n \in 2..MaxDim, t \in ScalarTypes}

Vals == ScalarVals \cup VectorVals

ValIsVector(v) == "comps" \in DOMAIN v
ValIsFloat(v)  == v.type = "f16"
ValIsNan(v)    == ValIsFloat(v) /\ IsNan(v.bits)

\* Val::getDim and Val::operator[] (here from index 1).
GetDim(v)   == IF ValIsVector(v) THEN Len(v.comps) ELSE 1
ValAt(v, i) == IF ValIsVector(v) THEN v.comps[i] ELSE v

\* Faulty variant: scalars are compared by their bits alone.
ValEqBitwise(a, b) ==
  IF ValIsVector(a)
    THEN /\ GetDim(a) = GetDim(b)
         /\ \A i \in 1..GetDim(a) : a.comps[i].type = ValAt(b, i).type
                                    /\ a.comps[i].bits = ValAt(b, i).bits
    ELSE a.type = b.type /\ a.bits = b.bits

\* Val::eq.
ValEq(a, b) ==
  LET ScalarEq(x, y) ==
        IF x.type # y.type THEN FALSE
        ELSE IF ValIsNan(x) THEN ValIsNan(y)
        ELSE x.bits = y.bits
  IN IF ValIsVector(a)
       THEN IF GetDim(a) # GetDim(b) THEN FALSE
            ELSE \A i \in 1..GetDim(a) : ScalarEq(a.comps[i], ValAt(b, i))
       ELSE ScalarEq(a, b)

\* a.eq(b) is called and returns.
ValEqCall(a, b) ==
  /\ epc = "idle"
  /\ call' = [fn |-> "eq", a |-> a, b |-> b, ret |-> ValEq(a, b)]
  /\ epc' = "returned"
  /\ UNCHANGED <<noevars, noAnswer>>

\* The caller is done with the returned value.
CallReturn ==
  /\ epc = "returned"
  /\ epc' = "idle"
  /\ call' = <<>>
  /\ UNCHANGED <<noevars, noAnswer>>

InitCalls ==
  /\ InitCommon
  /\ OthersUnused
  /\ ctxStatus = "none"
  /\ ProviderUnused
  /\ CatalogUnused
  /\ ValsUnused
  /\ epc = "idle"
  /\ call = <<>>
  /\ noAnswer = [k \in {"undefined", "unimplemented", "nodst"} |-> None]

NextEq ==
  \/ \E a \in Vals, b \in Vals : ValEqCall(a, b)
  \/ CallReturn

SpecEq == InitCalls /\ [][NextEq]_vars

\* ------------------------------------------------------------- claim C16
EqReturned == epc = "returned" /\ call.fn = "eq"

\* C16: on two scalars of one floating type eq is true for any two NaNs,
\* false for +0.0 against -0.0, and otherwise true exactly when the bit
\* patterns are identical; scalars of different types are never equal.
C16_ValEq ==
  (EqReturned /\ ~ValIsVector(call.a) /\ ~ValIsVector(call.b)) =>
    LET a == call.a
        b == call.b
    IN /\ a.type # b.type => call.ret = FALSE
       /\ (a.type = b.type /\ ValIsFloat(a)) =>
            IF IsNan(a.bits) /\ IsNan(b.bits) THEN call.ret = TRUE
            ELSE IF IsZero(a.bits) /\ IsZero(b.bits) /\ a.bits # b.bits
              THEN call.ret = FALSE
            ELSE call.ret = (a.bits = b.bits)

C16_Witness ==
  /\ EqReturned
  /\ call.a.type = "f16" /\ call.b.type = "f16"
  /\ IsNan(call.a.bits) /\ IsNan(call.b.bits)
  /\ F16Sign(call.a.bits) # F16Sign(call.b.bits)
  /\ F16Mant(call.a.bits) # F16Mant(call.b.bits)
  /\ call.ret = TRUE

(***************************************************************************)
(* Part 7: the instruction emulator (HSAILTestGenEmulator.cpp): the values *)
(* returned when there is no definite answer, float to integer             *)
(* conversion, the saturating integer operations and emulateDstVal.        *)
(***************************************************************************)
\* Val(): the empty value.
EmptyVal == [type |-> "none", bits |-> 0]

UndefValue    == EmptyVal  \* returned for unspecified behaviour
Unimplemented == EmptyVal  \* returned for unimplemented features
EmptyDstValue == EmptyVal  \* returned when there is no destination register

\* The kinds of "no definite answer" and the function that returns each.
NoAnswerKinds == {"undefined", "unimplemented", "nodst"}

\* ---------------------------------------------------------- integer types
\* The integer types emulated here: 8 bits wide, signed and unsigned.
IntTypes == {"s8", "u8"}
IsSignedType(type) == type = "s8"
GetBrigTypeNumBits(type) == IF type \in IntTypes THEN 8 ELSE 16

S8IB == 127
U8IB == 255

\* Val(type, x) for an integer type: the low bits of x.
IntVal(type, x) == [type |-> type, bits |-> x % 2^GetBrigTypeNumBits(type)]

\* Val::s8() / Val::u8(): the number a pattern stands for.
AsNumber(v) ==
  IF IsSignedType(v.type) /\ v.bits >= 2^(GetBrigTypeNumBits(v.type) - 1)
    THEN v.bits - 2^GetBrigTypeNumBits(v.type)
    ELSE v.bits

\* getIntBoundary(type, low), as the number it stands for.
GetIntBoundary(type, low) ==
  IF type = "s8" THEN (IF low THEN -S8IB - 1 ELSE S8IB)
  ELSE (IF low THEN 0 ELSE U8IB)

\* ---------------------------------------------------------------- cvt_f2i
\* A floating source value: NaN, an infinity, or a number given in quarters
\* (q = 4 * value), which f32 and f64 hold exactly in the range used here.
Quarters ==
  ((-4 * 130)..(-4 * 127)) \cup ((-4 * 2)..(4 * 2)) \cup ((4 * 126)..(4 * 129))
    \cup ((4 * 254)..(4 * 257))

FloatSources ==
  {[kind |-> "nan", q |-> 0], [kind |-> "inf", q |-> 1], [kind |-> "inf", q |-> -1]}
    \cup [kind : {"num"}, q : Quarters]

\* AluMod as cvt sees it: the integer rounding and its sat and signaling
\* variants (ROUNDING_NEARI, ROUNDING_NEARI_SAT, ROUNDING_SNEARI, ...).
Roundings == {"neari", "zeroi", "upi", "downi"}
AluMods == [rounding : Roundings, sat : BOOLEAN, signaling : BOOLEAN]

\* Magnitude beyond every boundary: how an infinity compares.
Beyond == 2^20

\* A source value, and a sum val + round, on the quarter scale.
OnScale(val) == IF val.kind = "inf" THEN val.q * Beyond ELSE val.q

\* Fractional part of the magnitude, in quarters, and the integer part.
FractQ(val) == (IF val.q < 0 THEN -val.q ELSE val.q) % 4
IntPart(val) == (IF val.q < 0 THEN -val.q ELSE val.q) \div 4
IsNegativeNum(val) == val.q < 0

\* f2i_round: the delta added before the truncating conversion.
F2iRound(val, rounding) ==
  IF val.kind = "inf" THEN 0
  ELSE IF rounding = "neari"
    THEN IF FractQ(val) > 2 \/ (FractQ(val) = 2 /\ IntPart(val) % 2 = 1)
           THEN (IF IsNegativeNum(val) THEN -1 ELSE 1)
           ELSE 0
  ELSE IF rounding = "zeroi" THEN 0
  ELSE IF rounding = "upi"
    THEN IF val.q > 0 /\ FractQ(val) # 0 THEN 1 ELSE 0
  ELSE IF val.q < 0 /\ FractQ(val) # 0 THEN -1 ELSE 0

\* Faulty variant: the boundary is taken from the other side.
F2iSaturateSwapped(type, lowBound) == IntVal(type, GetIntBoundary(type, ~lowBound))

\* f2i_saturate.
F2iSaturate(type, lowBound) == IntVal(type, GetIntBoundary(type, lowBound))

\* checkTypeBoundaries(type, v) for v on the quarter scale.
CheckTypeBoundaries(type, v) ==
  /\ \/ 4 * GetIntBoundary(type, TRUE) <= v
     \/ 4 * (GetIntBoundary(type, TRUE) - 1) < v
  /\ \/ v <= 4 * GetIntBoundary(type, FALSE)
     \/ v < 4 * (GetIntBoundary(type, FALSE) + 1)

\* static_cast<s64_t>(v) / static_cast<u64_t>(v): towards zero.
Truncated(v) == IF v >= 0 THEN v \div 4 ELSE -((-v) \div 4)

\* cvt_f2i<T>(type, aluMod, val): the value returned and the return
\* statement that produced it.
CvtF2i(type, aluMod, val) ==
  IF val.kind = "nan"
    THEN IF aluMod.sat THEN [ret |-> IntVal(type, 0), via |-> "value"]
         ELSE [ret |-> UndefValue, via |-> "undefined"]
  ELSE LET v == OnScale(val) + 4 * F2iRound(val, aluMod.rounding)
       IN IF ~CheckTypeBoundaries(type, v)
            THEN IF aluMod.sat
                   THEN [ret |-> F2iSaturate(type, v <= 0), via |-> "value"]
                   ELSE [ret |-> UndefValue, via |-> "undefined"]
          ELSE IF aluMod.signaling /\ FractQ(val) # 0
            THEN [ret |-> Unimplemented, via |-> "unimplemented"]
          ELSE [ret |-> IntVal(type, Truncated(v)), via |-> "value"]

\* emulateMemDst(segment, opcode, arg).
EmulateMemDst(opcode, arg) ==
  IF opcode = "ld" THEN [ret |-> arg, via |-> "value"]
  ELSE [ret |-> EmptyDstValue, via |-> "nodst"]

\* The history of the values returned for "no definite answer".
Noted(r) ==
  [k \in NoAnswerKinds |-> IF r.via = k THEN Some(r.ret) ELSE noAnswer[k]]

\* A cvt from a floating source to an integer type is emulated.
CvtF2iCall(type, aluMod, val) ==
  /\ epc = "idle"
  /\ LET r == CvtF2i(type, aluMod, val)
     IN /\ call' = [fn |-> "cvt_f2i", type |-> type, aluMod |-> aluMod,
                    val |-> val, ret |-> r.ret]
        /\ noAnswer' = Noted(r)
  /\ epc' = "returned"
  /\ UNCHANGED noevars

\* The destination value of an ld or st is emulated.
MemDstCall(opcode, arg) ==
  /\ epc = "idle"
  /\ LET r == EmulateMemDst(opcode, arg)
     IN /\ call' = [fn |-> "mem_dst", opcode |-> opcode, arg |-> arg,
                    ret |-> r.ret]
        /\ noAnswer' = Noted(r)
  /\ epc' = "returned"
  /\ UNCHANGED noevars

\* ------------------------------------------------- claims about cvt_f2i
\* The integer a source number rounds to under each rounding, computed from
\* the definition of the rounding rather than as the code does.
Floor(q) == q \div 4
Ceiling(q) == -((-q) \div 4)
RoundedInt(q, rounding) ==
  IF rounding = "downi" THEN Floor(q)
  ELSE IF rounding = "upi" THEN Ceiling(q)
  ELSE IF rounding = "zeroi" THEN (IF q >= 0 THEN Floor(q) ELSE Ceiling(q))
  ELSE IF q % 4 < 2 THEN Floor(q)
  ELSE IF q % 4 > 2 THEN Ceiling(q)
  ELSE IF Floor(q) % 2 = 0 THEN Floor(q) ELSE Ceiling(q)

\* The rounded source lies outside the range of the destination type.
OutOfRange(type, aluMod, val) ==
  \/ val.kind = "inf"
  \/ /\ val.kind = "num"
     /\ RoundedInt(val.q, aluMod.rounding) \notin
          GetIntBoundary(type, TRUE)..GetIntBoundary(type, FALSE)

CvtReturned == epc = "returned" /\ call.fn = "cvt_f2i"

\* C17: the emulator's three results without a definite answer (undefined,
\* unimplemented, no destination) are distinguishable from the value
\* returned: two different kinds never came back as the same value.
C17_NoAnswerDistinguishable ==
  \A k1, k2 \in NoAnswerKinds :
    (k1 # k2 /\ noAnswer[k1] # None /\ noAnswer[k2] # None)
      => Get(noAnswer[k1]) # Get(noAnswer[k2])

\* C18: cvt_f2i of NaN returns 0 when saturating and the undefined value
\* otherwise; a source whose rounded value is outside the destination range
\* returns the boundary on the side of its sign when saturating and the
\* undefined value otherwise; 128.0 to s8 with saturating nearest rounding
\* gives 127 and -129.0 gives -128.
C18_CvtF2iSaturation ==
  CvtReturned =>
    /\ call.val.kind = "nan" =>
         call.ret = (IF call.aluMod.sat THEN IntVal(call.type, 0) ELSE UndefValue)
    /\ OutOfRange(call.type, call.aluMod, call.val) =>
         /\ ~call.aluMod.sat => call.ret = UndefValue
         /\ call.aluMod.sat =>
              /\ call.ret.type = call.type
              /\ AsNumber(call.ret) =
                   GetIntBoundary(call.type, call.val.q < 0)
    /\ (call.type = "s8" /\ call.aluMod.rounding = "neari" /\ call.aluMod.sat
          /\ call.val.kind = "num") =>
         /\ call.val.q = 4 * 128 => AsNumber(call.ret) = 127
         /\ call.val.q = -4 * 129 => AsNumber(call.ret) = -128

C18_Witness ==
  /\ CvtReturned
  /\ call.type = "s8"
  /\ call.aluMod = [rounding |-> "neari", sat |-> TRUE, signaling |-> FALSE]
  /\ call.val = [kind |-> "num", q |-> -4 * 129]
  /\ call.ret = [type |-> "s8", bits |-> 128]

\* --------------------------------------- saturating add, sub and mul
\* Every number of an integer type.
TypeRange(type) == GetIntBoundary(type, TRUE)..GetIntBoundary(type, FALSE)

\* (T)x: the number of type T with the low bits of x.
Cast(type, x) == AsNumber(IntVal(type, x))

\* getSignMask(width).
GetSignMask(width) == 2^(width - 1)

\* The quotient a / b of C++, rounded towards zero.
TruncDiv(a, b) ==
  LET abs(x) == IF x < 0 THEN -x ELSE x
  IN IF (a < 0) = (b < 0) THEN abs(a) \div abs(b) ELSE -(abs(a) \div abs(b))

\* res = (T)getIntBoundary(type, sat == -1) when sat is not 0.
Saturated(type, res, sat) ==
  IF sat # 0 THEN Cast(type, GetIntBoundary(type, sat = -1)) ELSE res

\* Faulty variant: the sum is returned as computed.
OpAddWrapped(type, val1, val2) == Cast(type, val1 + val2)

\* op_add_sat.
OpAddSat(type, val1, val2) ==
  LET res == Cast(type, val1 + val2)
      sat == IF ~IsSignedType(type) /\ res < val1 THEN 1
             ELSE IF IsSignedType(type) /\ val1 >= 0 /\ val2 >= 0 /\ res < 0 THEN 1
             ELSE IF IsSignedType(type) /\ val1 < 0 /\ val2 < 0 /\ res >= 0 THEN -1
             ELSE 0
  IN Saturated(type, res, sat)

\* op_sub_sat.
OpSubSat(type, val1, val2) ==
  LET res == Cast(type, val1 - val2)
      sat == IF ~IsSignedType(type) /\ res > val1 THEN -1
             ELSE IF IsSignedType(type) /\ val1 >= 0 /\ val2 < 0 /\ res < 0 THEN 1
             ELSE IF IsSignedType(type) /\ val1 < 0 /\ val2 >= 0 /\ res >= 0 THEN -1
             ELSE 0
  IN Saturated(type, res, sat)

\* op_mul_sat.
OpMulSat(type, val1, val2) ==
  LET res == Cast(type, val1 * val2)
      min == Cast(type, GetSignMask(GetBrigTypeNumBits(type)))
      sat == IF IsSignedType(type)
               THEN IF \/ val1 < 0 /\ val2 = min
                       \/ val1 # 0 /\ Cast(type, TruncDiv(res, val1)) # val2
                      THEN (IF (val1 < 0) # (val2 < 0) THEN -1 ELSE 1)
                      ELSE 0
               ELSE IF val1 # 0 /\ TruncDiv(res, val1) # val2 THEN 1 ELSE 0
  IN Saturated(type, res, sat)

SatOpcodes == {"add", "sub", "mul"}

\* emulateSat for one element: the operation chosen by the opcode.
EmulateBinOpSat(opcode, type, val1, val2) ==
  IF opcode = "add" THEN OpAddSat(type, val1, val2)
  ELSE IF opcode = "sub" THEN OpSubSat(type, val1, val2)
  ELSE OpMulSat(type, val1, val2)

\* A saturating operation on two elements is emulated.
SatCall(opcode, type, val1, val2) ==
  /\ epc = "idle"
  /\ call' = [fn |-> "sat", opcode |-> opcode, type |-> type,
              val1 |-> val1, val2 |-> val2,
              ret |-> EmulateBinOpSat(opcode, type, val1, val2)]
  /\ epc' = "returned"
  /\ UNCHANGED <<noevars, noAnswer>>

NextSat ==
  \/ /\ epc = "idle"
     /\ \E opcode \in SatOpcodes, type \in IntTypes :
          \E val1 \in TypeRange(type), val2 \in TypeRange(type) :
            SatCall(opcode, type, val1, val2)
  \/ CallReturn

SpecSat == InitCalls /\ [][NextSat]_vars

\* ------------------------------------------------------------- claim C19
\* The exact result of the operation on the two numbers.
Exact(opcode, val1, val2) ==
  IF opcode = "add" THEN val1 + val2
  ELSE IF opcode = "sub" THEN val1 - val2
  ELSE val1 * val2

Clamp(x, lo, hi) == IF x < lo THEN lo ELSE IF x > hi THEN hi ELSE x

SatReturned == epc = "returned" /\ call.fn = "sat"

\* C19: for every pair of operands of a signed or unsigned integer type,
\* saturating add, sub and mul return the exact result clamped to the range
\* of the type (s8 127 + 1 = 127, u8 255 + 1 = 255), never a wrapped value.
C19_SaturatingOps ==
  SatReturned =>
    call.ret = Clamp(Exact(call.opcode, call.val1, call.val2),
                     GetIntBoundary(call.type, TRUE),
                     GetIntBoundary(call.type, FALSE))

C19_Witness ==
  /\ SatReturned
  /\ call.opcode = "add"
  /\ call.type = "s8"
  /\ call.val1 = S8IB
  /\ call.val2 = 1
  /\ call.ret = S8IB

\* ------------------------------------------------------------ emulateDstVal
\* Floating values are patterns in the binary16 layout (sign, 5 exponent
\* bits, 10 mantissa bits), standing for the f32 and f64 operands of the
\* emulated instructions.
FloatVal(b) == [type |-> "f16", bits |-> b]

MinNormal == 2^10

\* Sources: the zeros, the smallest subnormals, the two smallest normal
\* numbers of each sign, a quiet NaN with payload 1 of each sign and a
\* negative signaling NaN with payload 2.
DstPatterns ==
  {0, 2^15, 1, 2^15 + 1, MinNormal, MinNormal + 1, 2^15 + MinNormal,
   2^15 + MinNormal + 1, 31 * 2^10 + 2^9 + 1, 2^15 + 31 * 2^10 + 2^9 + 1,
   2^15 + 31 * 2^10 + 2}
DstSources == {FloatVal(b) : b \in DstPatterns}

\* An instruction: its format (InstBasic or InstMod), opcode, and for
\* InstMod the ftz bit and the rounding of its modifier.
DstOpcodes == {"abs", "neg", "copysign", "mov", "sub"}
Insts ==
  [format : {"basic"}, opcode : DstOpcodes, ftz : {FALSE}, rounding : {"none"}]
    \cup [format : {"mod"}, opcode : DstOpcodes, ftz : BOOLEAN,
          rounding : {"none", "near", "zero"}]

\* Val::ftz and Val::normalize on any Val: only floating values change.
ValFtz(v) == IF v.type = "f16" THEN FloatVal(Ftz(v.bits)) ELSE v
ValNormalize(v, discardSign) ==
  IF v.type = "f16" THEN FloatVal(Normalize(v.bits, discardSign)) ELSE v

\* emulateFtz: whether the modifier of the instruction requests ftz.
EmulateFtz(inst) == inst.format = "mod" /\ inst.ftz

\* discardNanSign(opcode).
DiscardNanSign(opcode) == opcode \notin {"abs", "neg", "class", "copysign"}

\* op_abs, op_neg and op_copysign on a pattern.
OpAbs(b) == b % 2^15
OpNeg(b) == (b + 2^15) % 2^16
OpCopySign(b1, b2) == F16Sign(b2) * 2^15 + (b1 % 2^15)

\* The number of units 2^-24 a pattern below 2 * MinNormal stands for.
Units(b) == IF F16Sign(b) = 1 THEN -(b % 2^15) ELSE b % 2^15
IsTiny(b) == b % 2^15 < 2 * MinNormal

\* op_sub on two tiny numbers: the difference is exact; x - x is +0.
OpSub(b1, b2) ==
  LET d == Units(b1) - Units(b2)
  IN IF d < 0 THEN 2^15 - d ELSE d

\* emulateMod for the opcodes above.
EmulateMod(inst, arg1, arg2) ==
  IF inst.rounding \notin {"none", "near"}
    THEN [ret |-> Unimplemented, via |-> "unimplemented"]
  ELSE [ret |-> FloatVal(CASE inst.opcode = "abs" -> OpAbs(arg1.bits)
                           [] inst.opcode = "neg" -> OpNeg(arg1.bits)
                           [] inst.opcode = "copysign" -> OpCopySign(arg1.bits, arg2.bits)
                           [] inst.opcode = "mov" -> arg1.bits
                           [] inst.opcode = "sub" -> OpSub(arg1.bits, arg2.bits)),
        via |-> "value"]

\* Faulty variant: the result is not flushed.
EmulateDstValNoFtzAfter(inst, arg1, arg2) ==
  LET ftz == EmulateFtz(inst)
      res == EmulateMod(inst, IF ftz THEN ValFtz(arg1) ELSE arg1,
                        IF ftz THEN ValFtz(arg2) ELSE arg2)
  IN [ret |-> ValNormalize(res.ret, DiscardNanSign(inst.opcode)),
      via |-> res.via]

\* emulateDstVal(inst, arg0, arg1, arg2, arg3, arg4) for a non-packed
\* instruction with two sources.
EmulateDstVal(inst, arg1, arg2) ==
  LET ftz == EmulateFtz(inst)
      res == EmulateMod(inst, IF ftz THEN ValFtz(arg1) ELSE arg1,
                        IF ftz THEN ValFtz(arg2) ELSE arg2)
      flushed == IF ftz THEN ValFtz(res.ret) ELSE res.ret
  IN [ret |-> ValNormalize(flushed, DiscardNanSign(inst.opcode)),
      via |-> res.via]

\* The destination value of an instruction is emulated.  sub is emulated
\* on tiny numbers only.
DstValCall(inst, arg1, arg2) ==
  /\ epc = "idle"
  /\ inst.opcode = "sub" => IsTiny(arg1.bits) /\ IsTiny(arg2.bits)
  /\ LET r == EmulateDstVal(inst, arg1, arg2)
     IN /\ call' = [fn |-> "dst", inst |-> inst, arg1 |-> arg1, arg2 |-> arg2,
                    ret |-> r.ret]
        /\ noAnswer' = Noted(r)
  /\ epc' = "returned"
  /\ UNCHANGED noevars

\* ------------------------------------------------------ the emulator spec
MemArgs == {IntVal("u8", 0), IntVal("u8", U8IB)}

NextEmu ==
  \/ /\ epc = "idle"
     /\ \E type \in IntTypes, aluMod \in AluMods, val \in FloatSources :
          CvtF2iCall(type, aluMod, val)
  \/ /\ epc = "idle"
     /\ \E opcode \in {"ld", "st"}, arg \in MemArgs : MemDstCall(opcode, arg)
  \/ /\ epc = "idle"
     /\ \E inst \in Insts, arg1 \in DstSources, arg2 \in DstSources :
          DstValCall(inst, arg1, arg2)
  \/ CallReturn

SpecEmu == InitCalls /\ [][NextEmu]_vars

\* ------------------------------------------------------------- claim C20
DstReturned == epc = "returned" /\ call.fn = "dst"

\* A subnormal replaced by the zero of its sign.
Flushed(b) == IF IsSubnormal(b) THEN F16Sign(b) * 2^15 ELSE b

\* The result of the core computation on the sources as the instruction
\* sees them, flushed again when ftz is requested.
ComputedResult ==
  LET ftz == call.inst.format = "mod" /\ call.inst.ftz
      src(a) == IF ftz THEN FloatVal(Flushed(a.bits)) ELSE a
      core == EmulateMod(call.inst, src(call.arg1), src(call.arg2)).ret.bits
  IN IF ftz THEN Flushed(core) ELSE core

PreservingOpcodes == {"abs", "neg", "class", "copysign"}

MaxChildren == 3

Emittables == 1..MaxChildren

\* The phase methods of Emittable.
Phases ==
  {"Test", "Init", "Finish", "StartProgram", "EndProgram", "StartModule",
   "ModuleDirectives", "ModuleVariables", "EndModule", "StartFunction",
   "FunctionFormalOutputArguments", "FunctionFormalInputArguments",
   "StartFunctionBody", "FunctionDirectives", "FunctionVariables",
   "FunctionInit", "EndFunction", "ActualCallArguments", "StartKernel",
   "KernelArguments", "StartKernelBody", "KernelDirectives",
   "KernelVariables", "KernelInit", "EndKernel", "SetupDispatch",
   "ScenarioInit", "ScenarioCodes", "ScenarioDispatches",
   "ScenarioValidation", "ScenarioEnd"}

\* The phase methods EmittableContainer overrides with a loop over list.
ContainerOverrides ==
  {"Init", "StartModule", "ModuleVariables", "EndModule",
   "FunctionFormalInputArguments", "FunctionFormalOutputArguments",
   "FunctionVariables", "FunctionDirectives", "FunctionInit",
   "ActualCallArguments", "KernelArguments", "KernelVariables",
   "KernelDirectives", "KernelInit", "StartKernelBody", "SetupDispatch",
   "ScenarioInit", "ScenarioCodes", "ScenarioDispatches", "ScenarioEnd"}

\* The children a phase call on the container reaches, in the order of the
\* calls: the loop over list of an override, nothing for the inherited body.
Reached(phase) == IF phase \in ContainerOverrides THEN list ELSE <<>>

\* EmittableContainer::Add(e), for a child not yet in the list.
ContainerAdd(e) ==
  /\ \A i \in 1..Len(list) : list[i] # e
  /\ list' = Append(list, e)
  /\ UNCHANGED <<kcall, nokvars>>

\* A phase method is called on the container.
ContainerCall(phase) ==
  /\ kcall' = [phase |-> phase, children |-> list, reached |-> Reached(phase)]
  /\ UNCHANGED <<list, nokvars>>

InitContainer ==
  /\ InitCommon
  /\ ctxStatus = "none"
  /\ ProviderUnused
  /\ CatalogUnused
  /\ ValsUnused
  /\ CallsUnused
  /\ OthersUnused

NextContainer ==
  \/ \E e \in Emittables : ContainerAdd(e)
  \/ \E phase \in Phases : ContainerCall(phase)

SpecContainer == InitContainer /\ [][NextContainer]_vars

\* ------------------------------------------------------------- claim C21
\* C21: EmittableContainer forwards every emission and scenario
\* construction phase call it receives to all of its children, each child
\* receiving the call exactly once, in the order the children were added.
C21_ForwardsEveryPhase ==
  kcall # <<>> => kcall.reached = kcall.children

(***************************************************************************)
(* Part 9: MemoryFenceTest::ExpectedResult (MemoryFenceTests.cpp).         *)
(***************************************************************************)
\* ------------------------------------------------------------------ bounds
\* Largest work-item index asked for.
MaxWorkItemId == 300

workgroupSizeX == 256

\* The opcode under test: ld, st, or any other.
FenceOpcodes == {"ld", "st", "atomic"}

\* Value(MV_UINT32, x).
ValueUint32(x) == [type |-> "MV_UINT32", value |-> x]

\* Faulty variant: a store expects the index of the work-item.
ExpectedResultOwnIndex(opcode, i) == ValueUint32(i)

\* MemoryFenceTest::ExpectedResult(i) of a test with the given opcode.
ExpectedResult(opcode, i) ==
  IF opcode = "ld" THEN ValueUint32(i)
  ELSE IF opcode = "st" THEN ValueUint32(workgroupSizeX - 1)
  ELSE ValueUint32(2)

\* ExpectedResult(i) is called on a test.
ExpectedResultCall(opcode, i) ==
  /\ epc = "idle"
  /\ call' = [fn |-> "ExpectedResult", opcode |-> opcode, i |-> i,
              ret |-> ExpectedResult(opcode, i)]
  /\ epc' = "returned"
  /\ UNCHANGED <<noevars, noAnswer>>

NextFence ==
  \/ /\ epc = "idle"
     /\ \E opcode \in FenceOpcodes, i \in 0..MaxWorkItemId :
          ExpectedResultCall(opcode, i)
  \/ CallReturn

SpecFence == InitCalls /\ [][NextFence]_vars

\* ------------------------------------------------------------- claim C22
\* C22: for a memory-fence store-under-test, ExpectedResult(i) is the
\* work-group size of the test minus 1 for every work-item i, independent
\* of i: 255 for the work-group size 256.
C22_StoreExpectsLastWriter ==
  (epc = "returned" /\ call.fn = "ExpectedResult" /\ call.opcode = "st") =>
    /\ call.ret.value = workgroupSizeX - 1
    /\ workgroupSizeX = 256 => call.ret.value = 255
    /\ call.ret.type = "MV_UINT32"

C22_Witness ==
  /\ epc = "returned"
  /\ call.fn = "ExpectedResult"
  /\ call.opcode = "st"
  /\ call.i = workgroupSizeX + 1
  /\ call.ret.value = 255

(***************************************************************************)
(* Part 10: the per-segment predicates of CoreConfig::SegmentsConfig       *)
(* (Utils.hpp).                                                            *)
(***************************************************************************)
\* ------------------------------------------------------------------ bounds
\* Largest BrigSegment8_t value passed to a predicate.
MaxSegmentValue == 20

\* The defined segments, in the order of their enumerators 1..8; every
\* other value (BRIG_SEGMENT_NONE, extensions) is not a defined segment.
DefinedSegments ==
  <<"flat", "global", "readonly", "kernarg", "group", "private", "spill", "arg">>
Segment(v) == IF v \in 1..Len(DefinedSegments) THEN DefinedSegments[v] ELSE "other"

\* return b; and assert(false); return true;
Returns(b) == [ret |-> b, asserted |-> FALSE]
AssertFalse == [ret |-> TRUE, asserted |-> TRUE]

\* Faulty variant: kernarg can be stored to.
CanStoreKernarg(segment) ==
  IF segment = "readonly" THEN Returns(FALSE)
  ELSE IF segment = "other" THEN AssertFalse
  ELSE Returns(TRUE)

\* CoreConfig::SegmentsConfig::CanStore.
CanStore(segment) ==
  IF segment \in {"readonly", "kernarg"} THEN Returns(FALSE)
  ELSE IF segment \in {"flat", "global", "group", "private", "spill", "arg"}
    THEN Returns(TRUE)
  ELSE AssertFalse

\* CoreConfig::SegmentsConfig::HasAddress.
HasAddress(segment) ==
  IF segment \in {"arg", "spill"} THEN Returns(FALSE)
  ELSE IF segment \in {"kernarg", "flat", "global", "readonly", "group", "private"}
    THEN Returns(TRUE)
  ELSE AssertFalse

\* CoreConfig::SegmentsConfig::HasNullptr.
HasNullptr(segment) ==
  IF segment \in {"arg", "spill", "global", "readonly", "kernarg"}
    THEN Returns(FALSE)
  ELSE IF segment \in {"group", "private", "flat"} THEN Returns(TRUE)
  ELSE AssertFalse

\* Faulty variant: flat has a flat address.
HasFlatAddressTotal(segment) ==
  IF segment \in {"arg", "spill", "readonly", "kernarg"} THEN Returns(FALSE)
  ELSE IF segment \in {"global", "group", "private", "flat"} THEN Returns(TRUE)
  ELSE AssertFalse

\* CoreConfig::SegmentsConfig::HasFlatAddress.
HasFlatAddress(segment) ==
  IF segment \in {"arg", "spill", "readonly", "kernarg"} THEN Returns(FALSE)
  ELSE IF segment \in {"global", "group", "private"} THEN Returns(TRUE)
  ELSE IF segment = "flat" THEN AssertFalse
  ELSE AssertFalse

\* CoreConfig::SegmentsConfig::CanPassAddressToKernel.
CanPassAddressToKernel(segment) ==
  IF segment \in {"kernarg", "arg", "spill", "group", "private"}
    THEN Returns(FALSE)
  ELSE IF segment \in {"flat", "global", "readonly"} THEN Returns(TRUE)
  ELSE AssertFalse

SegmentPredicates ==
  {"CanStore", "HasAddress", "HasNullptr", "HasFlatAddress",
   "CanPassAddressToKernel"}

\* One of the predicates is called with a BrigSegment8_t value.
SegmentCall(pred, v) ==
  /\ epc = "idle"
  /\ LET segment == Segment(v)
         r == CASE pred = "CanStore" -> CanStore(segment)
                [] pred = "HasAddress" -> HasAddress(segment)
                [] pred = "HasNullptr" -> HasNullptr(segment)
                [] pred = "HasFlatAddress" -> HasFlatAddress(segment)
                [] pred = "CanPassAddressToKernel" -> CanPassAddressToKernel(segment)
     IN call' = [fn |-> pred, v |-> v, segment |-> segment, ret |-> r.ret,
                 asserted |-> r.asserted]
  /\ epc' = "returned"
  /\ UNCHANGED <<noevars, noAnswer>>

NextSegments ==
  \/ /\ epc = "idle"
     /\ \E pred \in SegmentPredicates, v \in 0..MaxSegmentValue :
          SegmentCall(pred, v)
  \/ CallReturn

SpecSegments == InitCalls /\ [][NextSegments]_vars

\* ------------------------------------------------------ claims C23, C24
SegmentReturned == epc = "returned" /\ call.fn \in SegmentPredicates
OnDefinedSegment == SegmentReturned /\ call.segment # "other"

\* C23: HasAddress, HasNullptr, HasFlatAddress and CanPassAddressToKernel
\* are total case tables over the 8 defined segments: on each of them the
\* predicate returns a boolean without reaching an assertion.
C23_TotalCaseTables ==
  (OnDefinedSegment /\ call.fn # "CanStore") =>
    (call.ret \in BOOLEAN /\ ~call.asserted)

\* C23, amended: HasAddress, HasNullptr and CanPassAddressToKernel return a
\* boolean without reaching an assertion on each of the 8 defined segments;
\* HasFlatAddress does so on every defined segment but flat, where it
\* reaches an assertion.
C23_TotalButFlat ==
  (OnDefinedSegment /\ call.fn # "CanStore") =>
    /\ call.ret \in BOOLEAN
    /\ call.asserted <=> (call.fn = "HasFlatAddress" /\ call.segment = "flat")

C23_Witness ==
  /\ SegmentReturned
  /\ call.fn = "HasFlatAddress"
  /\ call.segment = "flat"
  /\ call.asserted

\* C24: CanStore returns false for exactly the readonly and kernarg
\* segments and true for the other six defined segments, and no defined
\* segment reaches the default assert branch.
C24_CanStoreTable ==
  (OnDefinedSegment /\ call.fn = "CanStore") =>
    /\ ~call.asserted
    /\ call.ret = (call.segment \notin {"readonly", "kernarg"})

C24_Witness ==
  /\ SegmentReturned
  /\ call.fn = "CanStore"
  /\ call.segment = "kernarg"
  /\ call.ret = FALSE
  /\ ~call.asserted

(***************************************************************************)
(* Part 11: further claims about the scenario engine of Part 1.            *)
(***************************************************************************)
\* ------------------------------------------------------------- claim C25
\* C25: after ScenarioBuilder::Commands(k) the builder holds a sequence for
\* every index 0..k: the missing ones are created empty, the sequences that
\* existed and the commands appended to them are unchanged, and the builder
\* returned is the one at index k.
C25_CommandsCreatesSequences ==
  [][/\ \A k \in SeqIds :
       BuilderCommands(k) =>
         /\ Len(bld') = k + 1
         /\ \A i \in 1..Len(bld) : bld'[i] = bld[i]
         /\ \A i \in (Len(bld) + 1)..(k + 1) : bld'[i] = <<>>
     /\ \A k \in SeqIds, c \in ThreadCommands :
          BuilderAdd(k, c) =>
            /\ Len(bld') >= k + 1
            /\ bld'[k + 1][Len(bld'[k + 1])] = c
            /\ \A i \in 1..Len(bld) :
                 bld[i] = IF i = k + 1
                            THEN SubSeq(bld'[i], 1, Len(bld'[i]) - 1)
                            ELSE bld'[i]]_vars

C25_Witness ==
  /\ Len(bld) = MaxSeqId + 1
  /\ bld[1] # <<>>
  /\ \A i \in 2..Len(bld) : bld[i] = <<>>

\* ------------------------------------------------------------- claim C26
\* C26: the pass/fail value that the Finish of a start_thread command logs
\* and returns into the aggregate was assigned beforehand, by the run of
\* its worker or by Finish itself; it is never an unassigned value, also
\* when the command was never executed because an earlier command of its
\* sequence failed.
C26_ResultAssigned ==
  \A s \in SeqIds :
    s < Len(commands) =>
      \A i \in DOMAIN finCount[s] :
        (i <= Len(Cmds(s)) /\ Cmds(s)[i].op = "st" /\ finCount[s][i] >= 1)
          => result[Cmds(s)[i].id] # None

\* ------------------------------------------------------------- claim C27
\* C27: during one Scenario::Execute, Finish is invoked at most once on
\* each command of each sequence, the commands of the worker sequences
\* named by a start_thread command included.
C27_FinishAtMostOnce ==
  \A s \in SeqIds : \A i \in DOMAIN finCount[s] : finCount[s][i] <= 1

\* ------------------------------------------------------------- claim C28
\* C28: when TestDataProvider::init is called with rndTestNum = n, the
\* predefined per-type catalogs built by that call are constructed with the
\* random-value count n set by that same call, not with the count that was
\* in force before the call.
C28_CatalogsUseNewCount ==
  initRnd # None =>
    \A t \in DOMAIN predefined : predefined[t].rndTestNum = Get(initRnd)

(***************************************************************************)
(* Part 12: element-wise emulation of regular packed instructions          *)
(* (HSAILTestGenEmulator.cpp, emulateDstValPackedRegular) for a packed     *)
(* compare with packing pp: lane idx of the destination is emulateCmp of   *)
(* lane idx of both sources.  A lane of the f32 source is a number or a    *)
(* NaN; a lane of the u32 destination is the number whose 32-bit pattern   *)
(* it holds (-1 is 0xffffffff).                                            *)
(***************************************************************************)
MaxLaneNum == 1
PackedDim == 2

NanLane == [type |-> "f32", nan |-> TRUE, num |-> 0]
NumLane(n) == [type |-> "f32", nan |-> FALSE, num |-> n]
LaneValues == {NanLane} \cup {NumLane(n) : n \in 0..MaxLaneNum}
PackedValues == [1..PackedDim -> LaneValues]

\* The comparison operators of emulateCmp, each with its signaling variant.
OrderedCompares == {"eq", "ne", "lt", "le", "gt", "ge", "num"}
UnorderedCompares == {"equ", "neu", "ltu", "leu", "gtu", "geu", "nan"}
QuietCompares == OrderedCompares \cup UnorderedCompares
SignalingOf(op) == <<"s", op>>
CompareOps == {<<"q", op>> : op \in QuietCompares}
                \cup {SignalingOf(op) : op \in QuietCompares}

\* op_cmp: -1, 0 or 1; a NaN operand compares as neither less nor greater.
OpCmp(arg1, arg2) ==
  IF arg1.nan \/ arg2.nan THEN 0
  ELSE IF arg1.num < arg2.num THEN -1
  ELSE IF arg1.num > arg2.num THEN 1
  ELSE 0

\* The relation of each comparison operator on the value of op_cmp.
CmpRelation(op, cmp) ==
  IF op \in {"eq", "equ"} THEN cmp = 0
  ELSE IF op \in {"ne", "neu"} THEN cmp # 0
  ELSE IF op \in {"lt", "ltu"} THEN cmp = -1
  ELSE IF op \in {"le", "leu"} THEN cmp # 1
  ELSE IF op \in {"gt", "gtu"} THEN cmp = 1
  ELSE cmp # -1

\* emulateCmp(type, stype, aluMod, op, arg1, arg2) for type u32, stype f32.
EmulateCmp(type, op, arg1, arg2) ==
  LET isNan == arg1.nan \/ arg2.nan
      cmp == OpCmp(arg1, arg2)
      signaling == op[1] = "s"
      res == IF op[2] = "num" THEN ~isNan
             ELSE IF op[2] = "nan" THEN isNan
             ELSE IF op[2] \in OrderedCompares
                    THEN CmpRelation(op[2], cmp) /\ ~isNan
             ELSE CmpRelation(op[2], cmp) \/ isNan
  IN IF signaling /\ isNan THEN Unimplemented
     ELSE [type |-> type, bits |-> IF res THEN -1 ELSE 0]

\* Val::empty().
ValEmpty(v) == v = EmptyVal

\* The loop of emulateDstValPackedRegular from lane idx on, dst holding the
\* lanes set so far: the value returned and, if a lane had no answer, the
\* lane at which the loop stopped.
RECURSIVE PackedLoop(_, _, _, _, _, _)
PackedLoop(type, op, arg1, arg2, idx, dst) ==
  IF idx >= PackedDim THEN [ret |-> [type |-> type, lanes |-> dst],
                             emptyAt |-> None]
  ELSE LET res == EmulateCmp(type, op, arg1[idx + 1], arg2[idx + 1])
       IN IF ValEmpty(res)
            THEN [ret |-> [type |-> "none", lanes |-> <<>>],
                  emptyAt |-> Some(idx)]
            ELSE PackedLoop(type, op, arg1, arg2, idx + 1,
                            Append(dst, res.bits))

EmulateDstValPackedRegular(type, op, arg1, arg2) ==
  PackedLoop(type, op, arg1, arg2, 0, <<>>)

\* A packed compare is emulated.  asserted: assert(idx == 0) failed (the
\* call aborts where assertions are compiled in, and returns the empty
\* value where they are not).
PackedCall(op, arg1, arg2) ==
  /\ epc = "idle"
  /\ LET r == EmulateDstValPackedRegular("u32", op, arg1, arg2)
     IN call' = [fn |-> "packed", op |-> op, arg1 |-> arg1, arg2 |-> arg2,
                 ret |-> r.ret, emptyAt |-> r.emptyAt,
                 asserted |-> (r.emptyAt # None /\ Get(r.emptyAt) # 0)]
  /\ epc' = "returned"
  /\ UNCHANGED <<noevars, noAnswer>>

NextPacked ==
  \/ /\ epc = "idle"
     /\ \E op \in CompareOps, arg1 \in PackedValues, arg2 \in PackedValues :
          PackedCall(op, arg1, arg2)
  \/ CallReturn

SpecPacked == InitCalls /\ [][NextPacked]_vars

\* ------------------------------------------------------------- claim C29
\* C29: in the element-wise emulation of a regular packed instruction, the
\* scalar emulation of a lane returns the empty value only at lane 0, so
\* the assertion idx == 0 holds for all operand values, also for a
\* signaling compare whose only NaN operand is in a lane other than 0.
C29_EmptyOnlyAtLaneZero ==
  (epc = "returned" /\ call.fn = "packed") =>
    /\ call.emptyAt # None => Get(call.emptyAt) = 0
    /\ ~call.asserted

(***************************************************************************)
(* Part 13: integer division and remainder (HSAILTestGenEmulator.cpp,      *)
(* undef_div_rem, op_div, op_rem) on the integer types of Part 7.          *)
(***************************************************************************)
\* numeric_limits<T>::min().
NumericMin(type) == GetIntBoundary(type, TRUE)

\* The remainder a % b of C++: a - (a / b) * b.
TruncRem(a, b) == a - TruncDiv(a, b) * b

\* undef_div_rem(val1, val2): the special cases of integer div and rem.
UndefDivRem(type, val1, val2) ==
  IF val2 = Cast(type, 0) THEN TRUE
  ELSE /\ IsSignedType(type)
       /\ val1 = NumericMin(type)
       /\ val2 = Cast(type, -1)

\* Faulty variant: the quotient is rounded down.
OpDivFloored(type, val1, val2) ==
  IF UndefDivRem(type, val1, val2) THEN UndefValue
  ELSE IntVal(type, val1 \div val2)

\* op_div.
OpDiv(type, val1, val2) ==
  IF UndefDivRem(type, val1, val2) THEN UndefValue
  ELSE IntVal(type, TruncDiv(val1, val2))

\* op_rem.
OpRem(type, val1, val2) ==
  IF UndefDivRem(type, val1, val2)
    THEN (IF val2 = Cast(type, 0) THEN UndefValue ELSE IntVal(type, 0))
    ELSE IntVal(type, TruncRem(val1, val2))

DivOpcodes == {"div", "rem"}

\* A div or rem of two integers is emulated.
DivCall(opcode, type, val1, val2) ==
  /\ epc = "idle"
  /\ call' = [fn |-> opcode, type |-> type, val1 |-> val1, val2 |-> val2,
              ret |-> IF opcode = "div" THEN OpDiv(type, val1, val2)
                      ELSE OpRem(type, val1, val2)]
  /\ epc' = "returned"
  /\ UNCHANGED <<noevars, noAnswer>>

NextDiv ==
  \/ /\ epc = "idle"
     /\ \E opcode \in DivOpcodes, type \in IntTypes :
          \E val1 \in TypeRange(type), val2 \in TypeRange(type) :
            DivCall(opcode, type, val1, val2)
  \/ CallReturn

SpecDiv == InitCalls /\ [][NextDiv]_vars

\* ------------------------------------------------------------- claim C30
Magnitude(x) == IF x < 0 THEN -x ELSE x

\* r is the remainder of a by b # 0 for the quotient rounded towards zero:
\* a - r is a multiple of b, r is smaller than b in magnitude and is zero
\* or has the sign of a.
IsTruncatedRemainder(a, b, r) ==
  /\ (a - r) % Magnitude(b) = 0
  /\ Magnitude(r) < Magnitude(b)
  /\ r = 0 \/ (r < 0) = (a < 0)

\* q is the quotient of a by b # 0 rounded towards zero.
IsTruncatedQuotient(a, b, q) == IsTruncatedRemainder(a, b, a - q * b)

DivReturned == epc = "returned" /\ call.fn \in DivOpcodes

\* The dividend is the minimum of a signed type and the divisor is -1.
MinByMinusOne ==
  IsSignedType(call.type) /\ call.val1 = -(2^(GetBrigTypeNumBits(call.type) - 1))
    /\ call.val2 = -1

\* C30: integer division returns the undefined (empty) result exactly when
\* the divisor is 0 or, for a signed type, the dividend is the minimum of
\* the type and the divisor is -1, and the quotient rounded towards zero
\* otherwise; integer remainder returns the undefined result exactly when
\* the divisor is 0, and returns 0 for the minimum of the type rem -1.
C30_DivRemUndefined ==
  DivReturned =>
    /\ call.fn = "div" =>
         IF call.val2 = 0 \/ MinByMinusOne THEN call.ret = EmptyVal
         ELSE /\ call.ret # EmptyVal
              /\ call.ret.type = call.type
              /\ IsTruncatedQuotient(call.val1, call.val2,
                                      AsNumber(call.ret))
    /\ call.fn = "rem" =>
         IF call.val2 = 0 THEN call.ret = EmptyVal
         ELSE /\ call.ret # EmptyVal
              /\ call.ret.type = call.type
              /\ MinByMinusOne => AsNumber(call.ret) = 0
              /\ IsTruncatedRemainder(call.val1, call.val2,
                                       AsNumber(call.ret))

C30_Witness ==
  /\ epc = "returned"
  /\ call.fn = "div"
  /\ call.type = "s8"
  /\ call.val1 = -128
  /\ call.val2 = -1
  /\ call.ret = EmptyVal

====
